---- MODULE Spec2Model ----
(***************************************************************************)
(* Person graph, edit operations, synthetic augmentor and reactive store   *)
(* of family-chart (src/unnamed/part_000), as a state machine.             *)
(*                                                                         *)
(* A person is a record                                                    *)
(*   id        opaque id, here a positive integer (0 stands for "unset")   *)
(*   data      [gender: "M" | "F" | "U" (unset), attrs: any other data     *)
(*             attribute present]                                          *)
(*   rels      [father, mother, spouses, children, chdef]; chdef says      *)
(*             whether rels.children is defined (an array, maybe empty)    *)
(*   _rels     the hidden mirror of rels written by toggleRels; def says   *)
(*             whether the _rels object exists, chdef whether              *)
(*             _rels.children is defined                                   *)
(*   to_add, unknown, hide_rels, main   the transient flags                *)
(* data_stash is the ordered array of persons (state.data of the store).   *)
(* A JavaScript TypeError aborts the running handler: operators that can   *)
(* throw return [data, err] with the mutations made before the throw.      *)
(***************************************************************************)
EXTENDS Integers, Sequences, FiniteSets, TLC

\* Size of the pool of person ids: no handler runs when it would need more.
MaxPersons == 4

Ids == 1..MaxPersons

\* Number of handlers run from the initial state.
MaxSteps == 4

(***************************************************************************)
(* Array helpers (Array.prototype.includes / indexOf / splice / find).     *)
(***************************************************************************)
Range(s) == {s[i] : i \in 1..Len(s)}

\* a JavaScript array as a sequence whose elements are all computed: what an
\* assignment to one element (EXCEPT) is applied to
array(xs) == SubSeq(xs, 1, Len(xs))

includes(s, x) == \E i \in 1..Len(s) : s[i] = x

indexOf(s, x) ==
  IF includes(s, x)
  THEN CHOOSE i \in 1..Len(s) : s[i] = x /\ \A j \in 1..(i-1) : s[j] # x
  ELSE 0

removeAt(s, i) == SubSeq(s, 1, i-1) \o SubSeq(s, i+1, Len(s))

\* arr.splice(arr.indexOf(x), 1) for an x the array includes
spliceOut(s, x) == IF includes(s, x) THEN removeAt(s, indexOf(s, x)) ELSE s

\* data_stash.findIndex(d => d.id === id), 0 when there is none
findIndex(data, id) ==
  IF \E i \in 1..Len(data) : data[i].id = id
  THEN CHOOSE i \in 1..Len(data) : data[i].id = id /\ \A j \in 1..(i-1) : data[j].id # id
  ELSE 0

inData(data, id) == findIndex(data, id) # 0

DataIds(data) == {data[i].id : i \in 1..Len(data)}

\* uuid.v4(): an id that occurs nowhere in the program's state
freshId(avoid) == CHOOSE i \in 1..(Cardinality(avoid) + 1) :
                    i \notin avoid /\ \A j \in 1..(i-1) : j \in avoid

(***************************************************************************)
(* Persons.                                                                *)
(***************************************************************************)
EmptyRels == [father |-> 0, mother |-> 0, spouses |-> <<>>, children |-> <<>>, chdef |-> FALSE]

NoHiddenRels == [def |-> FALSE, father |-> 0, mother |-> 0, children |-> <<>>, chdef |-> FALSE]

createNewPerson(id, gender, attrs, rels) ==
  [id |-> id, data |-> [gender |-> gender, attrs |-> attrs], rels |-> rels,
   _rels |-> NoHiddenRels, to_add |-> FALSE, unknown |-> FALSE,
   hide_rels |-> FALSE, main |-> FALSE]

\* getGenderFromRelative giving a spouse the gender of rel_datum
getGenderFromRelative_sameAsRel(rel_datum, rel_type) ==
  IF rel_type = "spouse" THEN rel_datum.data.gender
  ELSE IF rel_type \in {"daughter", "mother"} THEN "F" ELSE "M"

getGenderFromRelative(rel_datum, rel_type) ==
  IF rel_type \in {"daughter", "mother"} \/ (rel_type = "spouse" /\ rel_datum.data.gender = "M")
  THEN "F" ELSE "M"

createNewPersonWithGenderFromRel(id, rel_type, rel_datum) ==
  createNewPerson(id, getGenderFromRelative(rel_datum, rel_type), FALSE, EmptyRels)

\* [r.father, r.mother, ...(r.spouses || []), ...(r.children || [])].filter(id => !!id)
relIds(p) ==
  SelectSeq(<<p.rels.father, p.rels.mother>> \o p.rels.spouses \o p.rels.children,
            LAMBDA x : x # 0)

\* every id a person record mentions, hidden ones included
mentionedIds(p) ==
  ({p.id, p.rels.father, p.rels.mother, p._rels.father, p._rels.mother}
     \cup Range(p.rels.spouses) \cup Range(p.rels.children) \cup Range(p._rels.children)) \ {0}

AllIds(data) == UNION {mentionedIds(data[i]) : i \in 1..Len(data)}

(***************************************************************************)
(* checkIfRelativesConnectedWithoutPerson: a depth-first search over rels  *)
(* from each relative of datum that may not pass through datum and must    *)
(* reach data_stash[0].                                                    *)
(***************************************************************************)
\* isM reading the last person of the array instead of the first
isM_last(id, data_stash) == id = data_stash[Len(data_stash)].id

isM(id, data_stash) == id = data_stash[1].id

RECURSIVE checkIfAnyRelIsMain(_, _, _)
checkIfAnyRelIsMain(d0_id, history, data_stash) ==
  LET i == findIndex(data_stash, d0_id) IN
  IF i = 0 THEN FALSE
  ELSE LET h  == history \cup {d0_id}
           nb == {x \in Range(relIds(data_stash[i])) : x \notin h}
       IN  (\E x \in nb : isM(x, data_stash))
           \/ (\E x \in nb : checkIfAnyRelIsMain(x, h, data_stash))

findPersonLineToMain(r_id, without_id, data_stash) ==
  isM(r_id, data_stash) \/ checkIfAnyRelIsMain(r_id, {without_id, r_id}, data_stash)

checkIfRelativesConnectedWithoutPerson(datum, data_stash) ==
  \A r_id \in Range(relIds(datum)) : findPersonLineToMain(r_id, datum.id, data_stash)

(***************************************************************************)
(* deletePerson.  datum is the person object handed in; it is looked up in *)
(* data_stash by id.                                                       *)
(***************************************************************************)
\* changeToUnknown that leaves datum.data as it is
changeToUnknown_keepData(datum, data_stash) ==
  LET i == findIndex(data_stash, datum.id) IN
  IF i = 0 THEN data_stash ELSE [array(data_stash) EXCEPT ![i].unknown = TRUE]

changeToUnknown(datum, data_stash) ==
  LET i == findIndex(data_stash, datum.id) IN
  IF i = 0 THEN data_stash
  ELSE [array(data_stash) EXCEPT ![i].data = [gender |-> datum.data.gender, attrs |-> FALSE],
                          ![i].unknown = TRUE]

\* the loop body of executeDelete without the branch for arrays
removeFromRels_scalarsOnly(d, id) ==
  [d EXCEPT !.rels.father = IF @ = id THEN 0 ELSE @,
            !.rels.mother = IF @ = id THEN 0 ELSE @]

\* the loop body of executeDelete over d.rels: drop datum.id from every slot
removeFromRels(d, id) ==
  [d EXCEPT !.rels.father   = IF @ = id THEN 0 ELSE @,
            !.rels.mother   = IF @ = id THEN 0 ELSE @,
            !.rels.spouses  = spliceOut(@, id),
            !.rels.children = spliceOut(@, id)]

\* data_stash.splice(data_stash.findIndex(d => d.id === datum.id), 1):
\* findIndex gives -1 for a datum that is not in the array, and splice(-1, 1)
\* removes the last element
spliceDatum(data_stash, id) ==
  LET i == findIndex(data_stash, id) IN
  IF i # 0 THEN removeAt(data_stash, i)
  ELSE IF Len(data_stash) = 0 THEN data_stash
  ELSE removeAt(data_stash, Len(data_stash))

RECURSIVE deletePerson(_, _, _)
RECURSIVE executeDelete(_, _, _)
RECURSIVE deleteToAdds(_, _, _, _)

\* data_stash.forEach(d => {if (d.to_add) deletePerson(d, data_stash)}): forEach
\* visits the indices below the length it started with and reads the array as
\* it is at each visit
deleteToAdds(data_stash, i, n, avoid) ==
  IF i > n THEN data_stash
  ELSE IF i > Len(data_stash) THEN deleteToAdds(data_stash, i + 1, n, avoid)
  ELSE IF data_stash[i].to_add
       THEN deleteToAdds(deletePerson(data_stash[i], data_stash, avoid), i + 1, n, avoid)
       ELSE deleteToAdds(data_stash, i + 1, n, avoid)

\* executeDelete whose blank person takes the id of the deleted one
executeDelete_staleId(datum, data_stash, avoid) ==
  LET orBlank(d3) == IF Len(d3) = 0
                     THEN <<createNewPerson(datum.id, "U", FALSE, EmptyRels)>>
                     ELSE d3
      sweep(d2)   == orBlank(deleteToAdds(d2, 1, Len(d2), avoid))
  IN  sweep(spliceDatum([i \in 1..Len(data_stash) |-> removeFromRels(data_stash[i], datum.id)],
                        datum.id))

executeDelete(datum, data_stash, avoid) ==
  LET orBlank(d3) == IF Len(d3) = 0
                     THEN <<createNewPerson(freshId(avoid), "U", FALSE, EmptyRels)>>
                     ELSE d3
      sweep(d2)   == orBlank(deleteToAdds(d2, 1, Len(d2), avoid))
  IN  sweep(spliceDatum([i \in 1..Len(data_stash) |-> removeFromRels(data_stash[i], datum.id)],
                        datum.id))

deletePerson(datum, data_stash, avoid) ==
  IF ~checkIfRelativesConnectedWithoutPerson(datum, data_stash)
  THEN changeToUnknown(datum, data_stash)
  ELSE executeDelete(datum, data_stash, avoid)

removeToAdd(datum, data_stash, avoid) == deletePerson(datum, data_stash, avoid)

\* moveToAddToAdded that leaves the to_add flag
moveToAddToAdded_keep(datum_id, data_stash) == data_stash

moveToAddToAdded(datum_id, data_stash) ==
  LET i == findIndex(data_stash, datum_id) IN
  IF i = 0 THEN data_stash ELSE [array(data_stash) EXCEPT ![i].to_add = FALSE]

(***************************************************************************)
(* handleRelsOfNewDatum.  The operators return [data, err]: err is TRUE    *)
(* when the code throws a TypeError, data then holds the mutations made    *)
(* before the throw.                                                       *)
(***************************************************************************)
Ok(data) == [data |-> data, err |-> FALSE]

Thrown(data) == [data |-> data, err |-> TRUE]

\* the slot written by  rels[p.data.gender === 'M' ? 'father' : 'mother'] = ...
parentSlot(p) == IF p.data.gender = "M" THEN "father" ELSE "mother"

otherSlot(slot) == IF slot = "father" THEN "mother" ELSE "father"

getSlot(p, slot) == IF slot = "father" THEN p.rels.father ELSE p.rels.mother

setSlot(p, slot, id) ==
  IF slot = "father" THEN [p EXCEPT !.rels.father = id] ELSE [p EXCEPT !.rels.mother = id]

\* if (!p.rels.children) p.rels.children = []; p.rels.children.push(id)
pushChild(p, id) == [p EXCEPT !.rels.children = Append(@, id), !.rels.chdef = TRUE]

pushSpouse(p, id) == [p EXCEPT !.rels.spouses = Append(@, id)]

addNewPerson(data_stash, datum) == Append(data_stash, datum)

\* removeIfToAdd: rel_datum.rels.spouses.forEach(...) over the live array
RECURSIVE removeIfToAdd(_, _, _, _, _)
removeIfToAdd(data_stash, rel_id, i, n, avoid) ==
  LET ri == findIndex(data_stash, rel_id) IN
  IF i > n \/ ri = 0 THEN Ok(data_stash)
  ELSE LET sp == data_stash[ri].rels.spouses IN
       IF i > Len(sp) THEN removeIfToAdd(data_stash, rel_id, i + 1, n, avoid)
       ELSE LET si == findIndex(data_stash, sp[i]) IN
            IF si = 0 THEN Thrown(data_stash)
            ELSE IF data_stash[si].to_add
                 THEN removeIfToAdd(removeToAdd(data_stash[si], data_stash, avoid),
                                    rel_id, i + 1, n, avoid)
                 ELSE removeIfToAdd(data_stash, rel_id, i + 1, n, avoid)

\* addSpouse(datum) for a datum that is in data_stash
addSpouse(data_stash, datum_id, rel_id, avoid) ==
  LET n == Len(data_stash[findIndex(data_stash, rel_id)].rels.spouses)
      wire(r) ==
        IF r.err THEN r
        ELSE Ok([array(r.data) EXCEPT ![findIndex(r.data, rel_id)] = pushSpouse(@, datum_id),
                               ![findIndex(r.data, datum_id)].rels.spouses = <<rel_id>>])
  IN  wire(removeIfToAdd(data_stash, rel_id, 1, n, avoid))

\* addOtherParent: the new spouse is wired by addSpouse and then pushed
addOtherParent(data_stash, rel_id, avoid) ==
  LET wire(rel_datum, new_spouse, r) ==
        IF r.err THEN r
        ELSE Ok(addNewPerson([array(r.data) EXCEPT ![findIndex(r.data, rel_id)] =
                                              pushSpouse(@, new_spouse.id)],
                             new_spouse))
      create(rel_datum, nid) ==
        wire(rel_datum,
             [createNewPersonWithGenderFromRel(nid, "spouse", rel_datum)
                EXCEPT !.rels.spouses = <<rel_id>>],
             removeIfToAdd(data_stash, rel_id, 1, Len(rel_datum.rels.spouses),
                           avoid \cup {nid}))
  IN  create(data_stash[findIndex(data_stash, rel_id)], freshId(avoid))

\* other_parent: 0 = not set, -1 = "_new", otherwise the id of the other parent
addChildToSpouseAndParentToChild(data_stash, datum_id, rel_id, other_parent, avoid) ==
  LET wire(r1, spouse_id, si) ==
        IF r1.err THEN r1
        ELSE IF si = 0 THEN Thrown(r1.data)
        ELSE Ok([array(r1.data) EXCEPT
                   ![findIndex(r1.data, datum_id)] =
                       setSlot(@, parentSlot(r1.data[si]), spouse_id),
                   ![si] = pushChild(@, datum_id)])
      find(r1, spouse_id) == wire(r1, spouse_id, findIndex(r1.data, spouse_id))
  IN  IF other_parent = -1
      THEN find(addOtherParent(data_stash, rel_id, avoid), freshId(avoid))
      ELSE find(Ok(data_stash), other_parent)

addChild(data_stash, datum_id, rel_id, other_parent, avoid) ==
  LET wire(r1, ri) ==
        IF r1.err THEN r1
        ELSE Ok([array(r1.data) EXCEPT
                   ![findIndex(r1.data, datum_id)] =
                       setSlot(@, parentSlot(r1.data[ri]), rel_id),
                   ![ri] = pushChild(@, datum_id)])
      find(r1) == wire(r1, findIndex(r1.data, rel_id))
  IN  IF other_parent # 0
      THEN find(addChildToSpouseAndParentToChild(data_stash, datum_id, rel_id,
                                                 other_parent, avoid))
      ELSE find(Ok(data_stash))

addParent(data_stash, datum_id, rel_id, avoid) ==
  LET wire(d2, di, spouse_id, si) ==
        IF spouse_id = 0
        THEN Ok([array(d2) EXCEPT ![di].rels.children = <<rel_id>>, ![di].rels.chdef = TRUE])
        ELSE IF si = 0
        THEN Thrown([array(d2) EXCEPT ![di].rels.spouses = <<spouse_id>>])
        ELSE Ok([array(d2) EXCEPT ![di].rels.spouses = <<spouse_id>>,
                           ![si] = pushSpouse(@, datum_id),
                           ![di].rels.children = <<rel_id>>,
                           ![di].rels.chdef = TRUE])
      addSpouseOf(d2, spouse_id) ==
        wire(d2, findIndex(d2, datum_id), spouse_id, findIndex(d2, spouse_id))
      setParent(d2, ri, slot) == addSpouseOf(d2, getSlot(d2[ri], otherSlot(slot)))
      place(d1, ri, slot) == setParent([array(d1) EXCEPT ![ri] = setSlot(@, slot, datum_id)], ri, slot)
      cleared(d1, slot) == place(d1, findIndex(d1, rel_id), slot)
      start(slot, parent_to_add_id, pi) ==
        IF parent_to_add_id # 0 /\ pi = 0 THEN Thrown(data_stash)
        ELSE IF parent_to_add_id # 0
        THEN cleared(removeToAdd(data_stash[pi], data_stash, avoid), slot)
        ELSE cleared(data_stash, slot)
      look(slot, parent_to_add_id) ==
        start(slot, parent_to_add_id, findIndex(data_stash, parent_to_add_id))
      from(slot) == look(slot, getSlot(data_stash[findIndex(data_stash, rel_id)], slot))
  IN  from(parentSlot(data_stash[findIndex(data_stash, datum_id)]))

handleRelsOfNewDatum(data_stash, datum_id, rel_type, rel_id, other_parent, avoid) ==
  IF rel_type \in {"daughter", "son"}
  THEN addChild(data_stash, datum_id, rel_id, other_parent, avoid)
  ELSE IF rel_type \in {"father", "mother"}
  THEN addParent(data_stash, datum_id, rel_id, avoid)
  ELSE addSpouse(data_stash, datum_id, rel_id, avoid)

addNewPersonAndHandleRels(data_stash, datum, rel_type, rel_id, other_parent, avoid) ==
  handleRelsOfNewDatum(addNewPerson(data_stash, datum), datum.id, rel_type, rel_id,
                       other_parent, avoid \cup {datum.id})

(***************************************************************************)
(* createRelsToAdd (the Synthetic Augmentor).  st = [data, to_add_spouses, *)
(* err, avoid]: the spouses it creates are kept in to_add_spouses and      *)
(* pushed to data only after the loop.                                     *)
(***************************************************************************)
\* spouses.find(sp => sp.to_add) over d.rels.spouses.map(find): the id of the
\* first to_add spouse, 0 when there is none, -1 when the scan meets a spouse
\* id that is not in data first (sp is undefined: TypeError)
RECURSIVE findToAddSpouse(_, _, _)
findToAddSpouse(data, spouses, k) ==
  IF k > Len(spouses) THEN 0
  ELSE LET si == findIndex(data, spouses[k]) IN
       IF si = 0 THEN -1
       ELSE IF data[si].to_add THEN spouses[k]
       ELSE findToAddSpouse(data, spouses, k + 1)

\* createToAddSpouse that gives the placeholder the gender of its partner
createToAddSpouse_sameGender(id, d) ==
  [createNewPerson(id, d.data.gender, FALSE,
                   [EmptyRels EXCEPT !.spouses = <<d.id>>, !.chdef = TRUE])
     EXCEPT !.to_add = TRUE]

createToAddSpouse(id, d) ==
  [createNewPerson(id, IF d.data.gender = "M" THEN "F" ELSE "M", FALSE,
                   [EmptyRels EXCEPT !.spouses = <<d.id>>, !.chdef = TRUE])
     EXCEPT !.to_add = TRUE]

\* the back-fill left out: the child keeps its empty parent slot
setOtherParent_skip(child, slot, id) == child

\* child.rels[!is_father ? 'father' : 'mother'] = to_add_spouse.id, slot being
\* the parent slot of d
setOtherParent(child, slot, id) == setSlot(child, otherSlot(slot), id)

\* the body of d.rels.children.forEach for child number j of data[i];
\* cur is to_add_spouse (0 while it is undefined)
RECURSIVE relsToAddOfChildren(_, _, _, _)
relsToAddOfChildren(st, i, j, cur) ==
  LET d    == st.data[i]
      slot == parentSlot(d)
      \* to_add_spouse.rels.children.push(child.id) and the child's parent slot,
      \* for the to_add_spouse sid kept at data[si] or at to_add_spouses[ti]
      link(st1, sid, si, ti, ci) ==
        IF si # 0 /\ ~st1.data[si].rels.chdef
        THEN [st1 EXCEPT !.err = TRUE]
        ELSE relsToAddOfChildren(
               IF si # 0
               THEN [st1 EXCEPT !.data[si].rels.children = Append(@, st.data[ci].id),
                                !.data[ci] = setOtherParent(@, slot, sid)]
               ELSE [st1 EXCEPT !.to_add_spouses[ti].rels.children = Append(@, st.data[ci].id),
                                !.data[ci] = setOtherParent(@, slot, sid)],
               i, j + 1, sid)
      with(st1, sid, ci) ==
        link(st1, sid, findIndex(st1.data, sid), findIndex(st1.to_add_spouses, sid), ci)
      \* findOrCreateToAddSpouse
      create(nid, ci) ==
        with([st EXCEPT !.to_add_spouses = Append(@, createToAddSpouse(nid, d)),
                        !.data[i] = pushSpouse(@, nid),
                        !.avoid = @ \cup {nid}],
             nid, ci)
      findOrCreate(found, ci) ==
        IF found = -1 THEN [st EXCEPT !.err = TRUE]
        ELSE IF found = 0 THEN create(freshId(st.avoid), ci)
        ELSE with(st, found, ci)
      child(ci) ==
        IF ci = 0 THEN [st EXCEPT !.err = TRUE]
        ELSE IF getSlot(st.data[ci], slot) # d.id \/ getSlot(st.data[ci], otherSlot(slot)) # 0
        THEN relsToAddOfChildren(st, i, j + 1, cur)
        ELSE IF cur # 0 THEN findOrCreate(cur, ci)
        ELSE findOrCreate(findToAddSpouse(st.data, d.rels.spouses, 1), ci)
  IN  IF st.err \/ j > Len(d.rels.children) THEN st
      ELSE child(findIndex(st.data, d.rels.children[j]))

RECURSIVE relsToAddLoop(_, _)
relsToAddLoop(st, i) ==
  IF st.err \/ i > Len(st.data) THEN st
  ELSE IF st.data[i].rels.chdef /\ Len(st.data[i].rels.children) > 0
       THEN relsToAddLoop(relsToAddOfChildren(st, i, 1, 0), i + 1)
       ELSE relsToAddLoop(st, i + 1)

createRelsToAdd(data, avoid) ==
  LET push(st) == IF st.err THEN Thrown(st.data) ELSE Ok(st.data \o st.to_add_spouses)
  IN  push(relsToAddLoop([data |-> data, to_add_spouses |-> <<>>, err |-> FALSE,
                          avoid |-> avoid], 1))

(***************************************************************************)
(* CalculateTree: the two hierarchies around main, merged, with the spouse *)
(* nodes appended.  A layout node is [id, is_ancestry, added, spouse,      *)
(* parent, depth]; spouse and parent are positions in the tree (0: none).  *)
(***************************************************************************)
treeNode(id, is_ancestry, added, spouse, parent, depth) ==
  [id |-> id, is_ancestry |-> is_ancestry, added |-> added, spouse |-> spouse,
   parent |-> parent, depth |-> depth]

\* otherParent(d, p1, data).id, 0 when find gives undefined
otherParent(d, p1_id, data) ==
  LET hit(i) == data[i].id # p1_id /\ (data[i].id = d.rels.mother \/ data[i].id = d.rels.father)
  IN  IF \E i \in 1..Len(data) : hit(i)
      THEN data[CHOOSE i \in 1..Len(data) : hit(i) /\ \A j \in 1..(i-1) : ~hit(j)].id
      ELSE 0

\* the comparator of sortChildrenWithSpouses: negative when a sorts before b
compareChildren(a_id, b_id, datum, data) ==
  LET a_i == indexOf(datum.rels.spouses, otherParent(data[findIndex(data, a_id)], datum.id, data))
      b_i == indexOf(datum.rels.spouses, otherParent(data[findIndex(data, b_id)], datum.id, data))
  IN  IF datum.data.gender = "M" THEN a_i - b_i ELSE b_i - a_i

\* Array.prototype.sort is stable: x goes in front of the first element it
\* compares below
RECURSIVE insertSorted(_, _, _, _)
insertSorted(sorted, x, datum, data) ==
  IF Len(sorted) = 0 THEN <<x>>
  ELSE IF compareChildren(x, sorted[Len(sorted)], datum, data) < 0
       THEN Append(insertSorted(SubSeq(sorted, 1, Len(sorted) - 1), x, datum, data),
                   sorted[Len(sorted)])
       ELSE Append(sorted, x)

RECURSIVE sortChildrenWithSpouses(_, _, _, _)
sortChildrenWithSpouses(children, n, datum, data) ==
  IF n = 0 THEN <<>>
  ELSE insertSorted(sortChildrenWithSpouses(children, n - 1, datum, data), children[n],
                    datum, data)

\* the ids hierarchyGetterChildren returns for person id (none for an id that
\* is not in data: the caller throws on it)
hierarchyGetterChildren(id, data) ==
  LET i == findIndex(data, id) IN
  IF i = 0 THEN <<>>
  ELSE LET ch == data[i].rels.children IN
       IF \A c \in Range(ch) : inData(data, c)
       THEN sortChildrenWithSpouses(ch, Len(ch), data[i], data)
       ELSE ch

hierarchyGetterParents(id, data) ==
  LET i == findIndex(data, id) IN
  IF i = 0 THEN <<>>
  ELSE SelectSeq(<<data[i].rels.father, data[i].rels.mother>>, LAMBDA x : x # 0)

\* d3.hierarchy(datum, getter).descendants(): the nodes in breadth-first order
RECURSIVE hierarchy(_, _, _, _)
hierarchy(nodes, k, data, is_ancestry) ==
  IF k > Len(nodes) THEN nodes
  ELSE LET new(kids) == [j \in 1..Len(kids) |->
                            treeNode(kids[j], is_ancestry, FALSE, 0, k, nodes[k].depth + 1)]
           kidsOf(id) == IF is_ancestry THEN hierarchyGetterParents(id, data)
                         ELSE hierarchyGetterChildren(id, data)
       IN  hierarchy(nodes \o new(kidsOf(nodes[k].id)), k + 1, data, is_ancestry)

calculateTreePositions(main_id, data, is_ancestry) ==
  hierarchy(<<treeNode(main_id, FALSE, FALSE, 0, 0, 0)>>, 1, data, is_ancestry)

\* [...children, ...parents.slice(1)], depth-1 ancestors hanging on children[0]
mergeSides(parents, children) ==
  children \o [j \in 1..(Len(parents) - 1) |->
                 [parents[j + 1] EXCEPT !.parent = IF @ = 1 THEN 1 ELSE @ - 1 + Len(children)]]

\* setupSpouses: for (let i = tree.length; i--;) pushing one node per spouse
RECURSIVE setupSpouses(_, _, _)
setupSpouses(tree, i, data) ==
  IF i = 0 THEN tree
  ELSE LET d  == tree[i]
           new(sp) == [j \in 1..Len(sp) |-> treeNode(sp[j], FALSE, TRUE, i, 0, d.depth)]
           spousesAt(di) == IF di = 0 \/ d.is_ancestry THEN <<>> ELSE data[di].rels.spouses
       IN  setupSpouses(tree \o new(spousesAt(findIndex(data, d.id))), i - 1, data)

\* [data, tree, main_id, err].  The run throws when it meets an id that is not
\* in data: in createRelsToAdd, in a hierarchy getter (before the main flags
\* are written) or at a spouse node (after).
CalculateTree(data, main_id, single_parent_empty_card, avoid) ==
  LET flagged(data_stash, main) ==
        [i \in 1..Len(data_stash) |->
           [data_stash[i] EXCEPT !.main = (data_stash[i].id = main)]]
      thrown(d) == [data |-> d, tree |-> <<>>, main_id |-> 0, err |-> TRUE]
      done(data_stash, main, tree) ==
        IF \E k \in 1..Len(tree) : ~inData(data_stash, tree[k].id)
        THEN thrown(flagged(data_stash, main))
        ELSE [data |-> flagged(data_stash, main), tree |-> tree, main_id |-> main,
              err |-> FALSE]
      merge(data_stash, main, merged) ==
        IF \E k \in 1..Len(merged) : ~inData(data_stash, merged[k].id)
        THEN thrown(data_stash)
        ELSE done(data_stash, main, setupSpouses(merged, Len(merged), data_stash))
      layout(data_stash, main) ==
        merge(data_stash, main,
              mergeSides(calculateTreePositions(main, data_stash, TRUE),
                         calculateTreePositions(main, data_stash, FALSE)))
      start(r0) ==
        IF r0.err THEN thrown(r0.data)
        ELSE layout(r0.data,
                    IF main_id # 0 /\ inData(r0.data, main_id) THEN main_id
                    ELSE r0.data[1].id)
  IN  IF Len(data) = 0 THEN [data |-> <<>>, tree |-> <<>>, main_id |-> 0, err |-> FALSE]
      ELSE IF single_parent_empty_card THEN start(createRelsToAdd(data, avoid))
      ELSE start(Ok(data))

(***************************************************************************)
(* toggleRels(tree_datum, hide_rels) on the node at position k of tree.    *)
(***************************************************************************)
\* showHideAncestry(rel_type)
showHideAncestry(p, rel_type, hide_rels) ==
  IF hide_rels
  THEN IF getSlot(p, rel_type) = 0 THEN p
       ELSE IF rel_type = "father"
            THEN [p EXCEPT !._rels.def = TRUE, !._rels.father = p.rels.father, !.rels.father = 0]
            ELSE [p EXCEPT !._rels.def = TRUE, !._rels.mother = p.rels.mother, !.rels.mother = 0]
  ELSE IF rel_type = "father"
       THEN IF ~p._rels.def \/ p._rels.father = 0 THEN p
            ELSE [p EXCEPT !.rels.father = p._rels.father, !._rels.father = 0]
       ELSE IF ~p._rels.def \/ p._rels.mother = 0 THEN p
            ELSE [p EXCEPT !.rels.mother = p._rels.mother, !._rels.mother = 0]

\* the positions of the nodes in tree_datum.spouses
spousesOf(tree, k) == SelectSeq([j \in 1..Len(tree) |-> j], LAMBDA j : tree[j].spouse = k)

\* the body of  [tree_datum, ...spouses].forEach(sp => children.forEach(ch_id => ...))
\* for person sps[a] and child children[b]
RECURSIVE moveChildren(_, _, _, _, _, _)
moveChildren(r, sps, children, a, b, hide_rels) ==
  IF r.err \/ a > Len(sps) THEN r
  ELSE IF b > Len(children) THEN moveChildren(r, sps, children, a + 1, 1, hide_rels)
  ELSE
  LET i  == findIndex(r.data, sps[a])
      sp == r.data[i]
      ch == children[b]
  IN  IF hide_rels
      THEN IF ~sp.rels.chdef THEN Thrown(r.data)
           ELSE IF includes(sp.rels.children, ch)
           THEN moveChildren(
                  Ok([array(r.data) EXCEPT ![i]._rels.def = TRUE, ![i]._rels.chdef = TRUE,
                                    ![i]._rels.children = Append(@, ch),
                                    ![i].rels.children = spliceOut(@, ch)]),
                  sps, children, a, b + 1, hide_rels)
           ELSE moveChildren(r, sps, children, a, b + 1, hide_rels)
      ELSE IF ~sp._rels.def \/ ~sp._rels.chdef THEN Thrown(r.data)
           ELSE IF includes(sp._rels.children, ch)
           THEN moveChildren(
                  Ok([array(r.data) EXCEPT ![i].rels.chdef = TRUE,
                                    ![i].rels.children = Append(@, ch),
                                    ![i]._rels.children = spliceOut(@, ch)]),
                  sps, children, a, b + 1, hide_rels)
           ELSE moveChildren(r, sps, children, a, b + 1, hide_rels)

showHideChildren(data, tree, k, hide_rels) ==
  LET p == data[findIndex(data, tree[k].id)]
      defined  == IF hide_rels THEN p.rels.chdef ELSE p._rels.def /\ p._rels.chdef
      children == IF hide_rels THEN p.rels.children ELSE p._rels.children
      spouses  == IF tree[k].spouse # 0 THEN <<tree[k].spouse>> ELSE spousesOf(tree, k)
      sps      == <<tree[k].id>> \o [j \in 1..Len(spouses) |-> tree[spouses[j]].id]
  IN  IF ~defined THEN Ok(data)
      ELSE moveChildren(Ok(data), sps, children, 1, 1, hide_rels)

toggleRels(data, tree, k, hide_rels) ==
  LET i == findIndex(data, tree[k].id) IN
  IF tree[k].is_ancestry \/ data[i].main
  THEN Ok([array(data) EXCEPT ![i] = showHideAncestry(showHideAncestry(@, "father", hide_rels),
                                               "mother", hide_rels)])
  ELSE showHideChildren(data, tree, k, hide_rels)

\* tree_data.forEach(d => {d.data.hide_rels = hide_rels; toggleRels(d, hide_rels)})
RECURSIVE toggleAllRels(_, _, _, _)
toggleAllRels(r, tree, k, hide_rels) ==
  IF r.err \/ k > Len(tree) THEN r
  ELSE LET i == findIndex(r.data, tree[k].id) IN
       toggleAllRels(toggleRels([array(r.data) EXCEPT ![i].hide_rels = hide_rels], tree, k, hide_rels),
                     tree, k + 1, hide_rels)

\* LinkBreakIconWrapper: the nodes that carry the hide/show icon
areParents(r) == r.father # 0 \/ r.mother # 0

areChildren(r) == r.chdef /\ Len(r.children) > 0

hasLinkBreakIcon(data, tree, k) ==
  LET d == data[findIndex(data, tree[k].id)] IN
  \/ (tree[k].is_ancestry \/ d.main) /\ (areParents(d.rels) \/ areParents(d._rels))
  \/ /\ ~tree[k].is_ancestry /\ tree[k].added
     /\ LET sp == data[findIndex(data, tree[tree[k].spouse].id)] IN
        /\ areChildren(d.rels) \/ areChildren(d._rels)
        /\ areChildren(sp.rels) \/ areChildren(sp._rels)

(***************************************************************************)
(* CalculateTree with all its options.  A hierarchy is the node list of    *)
(* calculateTreePositions (breadth first, parent = position of the parent) *)
(* with ch, the children array of each node (<<>>: no children property).  *)
(*   tg   the toggle values kept on the persons: anc[<<id, parent_id>>] is *)
(*        d.data._tgdp[parent_id], sp[<<id, parent_id, p2_id>>] is         *)
(*        d.data._tgdp_sp[parent_id][p2_id], stash the same of __tgdp_sp;  *)
(*        parent_id 0 stands for 'main', a key out of the domain for a     *)
(*        property that is not set                                         *)
(***************************************************************************)
NoToggles == [anc |-> <<>>, sp |-> <<>>, stash |-> <<>>]

\* obj[key], 0 when the property is not set
prop(obj, key) == IF key \in DOMAIN obj THEN obj[key] ELSE 0

\* obj[key] = val
setProp(obj, key, val) == [k \in DOMAIN obj \cup {key} |-> IF k = key THEN val ELSE obj[k]]

\* delete obj[key]
deleteProp(obj, key) == [k \in DOMAIN obj \ {key} |-> obj[k]]

\* arr.forEach(x => st = Op(st, x))
RECURSIVE forEach(_, _, _)
forEach(Op(_, _), st, arr) ==
  IF Len(arr) = 0 THEN st ELSE forEach(Op, Op(st, Head(arr)), Tail(arr))

\* all_duplicates.sort((a, b) => b.val - a.val)[0]: the first of those with
\* the greatest value
firstGreatest(arr, val(_)) ==
  arr[CHOOSE i \in 1..Len(arr) :
        /\ \A j \in 1..Len(arr) : val(arr[j]) <= val(arr[i])
        /\ \A j \in 1..(i - 1) : val(arr[j]) < val(arr[i])]

\* node.children of every node of d3.hierarchy
childrenOf(nodes) ==
  [k \in 1..Len(nodes) |-> SelectSeq([j \in 1..Len(nodes) |-> j],
                                     LAMBDA j : nodes[j].parent = k)]

\* trimTree: max_depth -1 stands for undefined
trimTree(nodes, ch, max_depth) ==
  [k \in 1..Len(nodes) |-> IF max_depth # -1 /\ nodes[k].depth = max_depth THEN <<>>
                           ELSE ch[k]]

\* root === d ? 'main' : d.parent.data.id
parentId(nodes, d) == IF nodes[d].parent = 0 THEN 0 ELSE nodes[nodes[d].parent].id

\* handleDuplicateHierarchyAncestry.  st is [ch, tg, groups, toggle]: groups
\* is ancestry_duplicates, toggle[d] the _toggle of node d.
RECURSIVE checkChildrenAncestry(_, _, _, _)
checkChildrenAncestry(nodes, ch, d, e) ==
  IF Len(ch[e]) = 0 THEN <<>>
  ELSE IF e # d /\ \A a \in Range(ch[d]) : \E b \in Range(ch[e]) : nodes[a].id = nodes[b].id
       THEN <<e>>
       ELSE forEach(LAMBDA found, c : found \o checkChildrenAncestry(nodes, ch, d, c),
                    <<>>, ch[e])

assignDuplicateValuesAncestry(nodes, st, all_duplicates) ==
  LET key(d) == <<nodes[d].id, parentId(nodes, d)>>
      read(s, d) ==
        IF prop(s.tg.anc, key(d)) = 0
        THEN [s EXCEPT !.tg.anc = setProp(@, key(d), -1), !.toggle = setProp(@, d, -1)]
        ELSE [s EXCEPT !.toggle = setProp(@, d, s.tg.anc[key(d)])]
      closeOthers(s) ==
        LET top     == firstGreatest(all_duplicates, LAMBDA d : s.toggle[d])
            forced  == IF \A d \in Range(all_duplicates) : s.toggle[d] < 0
                       THEN [s EXCEPT !.tg.anc = setProp(@, key(top), 1)]
                       ELSE s
        IN  IF Cardinality({i \in 1..Len(all_duplicates) : s.toggle[all_duplicates[i]] > 0}) > 1
            THEN forEach(LAMBDA s1, d : IF d = top THEN s1
                                        ELSE [s1 EXCEPT !.tg.anc = setProp(@, key(d), -1)],
                         forced, all_duplicates)
            ELSE forced
  IN  closeOthers(forEach(read, st, all_duplicates))

handleToggleOffAncestry(nodes, st, all_duplicates) ==
  forEach(LAMBDA s, d : IF s.tg.anc[<<nodes[d].id, parentId(nodes, d)>>] < 0
                        THEN [s EXCEPT !.ch[d] = <<>>] ELSE s,
          st, all_duplicates)

RECURSIVE loopChildrenAncestry(_, _, _)
loopChildrenAncestry(nodes, st, d) ==
  IF Len(st.ch[d]) = 0 \/ \E g \in Range(st.groups) : includes(g, d) THEN st
  ELSE LET group(all_duplicates) ==
             handleToggleOffAncestry(
               nodes,
               assignDuplicateValuesAncestry(
                 nodes, [st EXCEPT !.groups = Append(@, all_duplicates)], all_duplicates),
               all_duplicates)
           found(duplicates) ==
             IF Len(duplicates) > 0 THEN group(<<d>> \o duplicates)
             ELSE forEach(LAMBDA s, c : loopChildrenAncestry(nodes, s, c), st, st.ch[d])
       IN  found(checkChildrenAncestry(nodes, st.ch, d, 1))

handleDuplicateHierarchyAncestry(nodes, ch, tg) ==
  loopChildrenAncestry(nodes, [ch |-> ch, tg |-> tg, groups |-> <<>>, toggle |-> <<>>], 1)

\* getChildrenBySpouse(d)[p2_id]: the children of node d whose other parent
\* is p2_id (0: the child has no other parent)
getChildrenBySpouse(nodes, data, ch, d, p2_id) ==
  SelectSeq(ch[d],
            LAMBDA c : LET r == data[findIndex(data, nodes[c].id)].rels IN
                       (IF r.father = nodes[d].id THEN r.mother ELSE r.father) = p2_id)

\* d.data.rels.spouses of node d
spousesOfNode(nodes, data, d) == data[findIndex(data, nodes[d].id)].rels.spouses

\* handleDuplicateHierarchyProgeny.  st is [ch, tg, groups]: groups is
\* progeny_duplicates, a member [d, p2] the node d with its spouse p2.
RECURSIVE checkChildrenProgeny(_, _, _, _, _, _)
checkChildrenProgeny(nodes, data, ch, datum, partner2, e) ==
  IF e = datum \/ Len(ch[e]) = 0 THEN <<>>
  ELSE forEach(LAMBDA found, p2 :
                 IF {nodes[datum].id, partner2} \subseteq {nodes[e].id, p2}
                 THEN Append(found, [d |-> e, p2 |-> p2])
                 ELSE forEach(LAMBDA f, c :
                                f \o checkChildrenProgeny(nodes, data, ch, datum, partner2, c),
                              found, getChildrenBySpouse(nodes, data, ch, e, p2)),
               <<>>, spousesOfNode(nodes, data, e))

assignDuplicateValuesProgeny(nodes, st, all_duplicates) ==
  LET key(m) == <<nodes[m.d].id, parentId(nodes, m.d), m.p2>>
      unstash(tg, k) ==
        IF k \in DOMAIN tg.stash
        THEN [tg EXCEPT !.sp = setProp(@, k, tg.stash[k]), !.stash = deleteProp(@, k)]
        ELSE tg
      init(tg, k) == IF k \in DOMAIN tg.sp THEN tg ELSE [tg EXCEPT !.sp = setProp(@, k, 1)]
      read(s, m) ==
        LET tg1 == init(unstash(s.tg, key(m)), key(m)) IN
        [tg |-> tg1, val |-> Append(s.val, tg1.sp[key(m)])]
      closeOthers(s) ==
        LET is  == [i \in 1..Len(all_duplicates) |-> i]
            top == firstGreatest(is, LAMBDA i : s.val[i])
            forced == IF \A i \in Range(is) : s.val[i] < 0
                      THEN [s.tg EXCEPT !.sp = setProp(@, key(all_duplicates[top]), 1)]
                      ELSE s.tg
        IN  IF Cardinality({i \in Range(is) : s.val[i] > 0}) > 1
            THEN forEach(LAMBDA tg, i :
                           IF i = top THEN tg
                           ELSE [tg EXCEPT !.sp = setProp(@, key(all_duplicates[i]), -1)],
                         forced, is)
            ELSE forced
  IN  [st EXCEPT !.tg = closeOthers(forEach(read, [tg |-> st.tg, val |-> <<>>],
                                            all_duplicates))]

handleToggleOffProgeny(nodes, data, st, all_duplicates) ==
  forEach(LAMBDA s, m :
            IF s.tg.sp[<<nodes[m.d].id, parentId(nodes, m.d), m.p2>>] < 0
            THEN [s EXCEPT !.ch[m.d] =
                    SelectSeq(@, LAMBDA c : ~includes(
                        getChildrenBySpouse(nodes, data, s.ch, m.d, m.p2), c))]
            ELSE s,
          st, all_duplicates)

stashTgdpSpouse(nodes, tg, d, p2) ==
  LET k == <<nodes[d].id, parentId(nodes, d), p2>> IN
  IF k \in DOMAIN tg.sp
  THEN [tg EXCEPT !.stash = setProp(@, k, tg.sp[k]), !.sp = deleteProp(@, k)]
  ELSE tg

RECURSIVE loopChildrenProgeny(_, _, _, _)
loopChildrenProgeny(nodes, data, st, d) ==
  IF Len(st.ch[d]) = 0 THEN st
  ELSE LET children_by_spouse(p2) == getChildrenBySpouse(nodes, data, st.ch, d, p2)
           group(s, all_duplicates) ==
             handleToggleOffProgeny(
               nodes, data,
               assignDuplicateValuesProgeny(
                 nodes, [s EXCEPT !.groups = Append(@, all_duplicates)], all_duplicates),
               all_duplicates)
           found(s, p2, duplicates) ==
             IF Len(duplicates) > 0 THEN group(s, <<[d |-> d, p2 |-> p2]>> \o duplicates)
             ELSE forEach(LAMBDA s1, c : loopChildrenProgeny(nodes, data, s1, c),
                          [s EXCEPT !.tg = stashTgdpSpouse(nodes, @, d, p2)],
                          children_by_spouse(p2))
           spouse(s, p2) ==
             IF \E g \in Range(s.groups) : \E m \in Range(g) :
                  {nodes[d].id, p2} \subseteq {nodes[m.d].id, m.p2}
             THEN s
             ELSE found(s, p2, checkChildrenProgeny(nodes, data, s.ch, d, p2, 1))
       IN  forEach(spouse, st, spousesOfNode(nodes, data, d))

handleDuplicateHierarchyProgeny(nodes, data, ch, tg) ==
  loopChildrenProgeny(nodes, data, [ch |-> ch, tg |-> tg, groups |-> <<>>], 1)

\* a loaded graph: person i has the gender genders[i], the father fathers[i]
\* and the mother mothers[i] (0: none); the two parents of a child are spouses
fromParents(genders, fathers, mothers) ==
  LET n == Len(genders)
      kids(i) == SelectSeq([j \in 1..n |-> j], LAMBDA j : i \in {fathers[j], mothers[j]})
      partners(i) ==
        SelectSeq([j \in 1..n |-> j],
                  LAMBDA j : j # i /\ \E c \in 1..n : {fathers[c], mothers[c]} = {i, j})
  IN  [i \in 1..n |->
         createNewPerson(i, genders[i], TRUE,
                         [father |-> fathers[i], mother |-> mothers[i],
                          spouses |-> partners(i), children |-> kids(i),
                          chdef |-> Len(kids(i)) > 0])]

(***************************************************************************)
(* The layout nodes of CalculateTree.  A node is a record                  *)
(*   id, is_ancestry, added, sibling, depth      as in the code            *)
(*   parent, spouse     positions in the tree (0: none)                    *)
(*   parents, children  positions in the tree (<<>>: the property is not   *)
(*                      set)                                               *)
(*   x, y               the coordinates; d3.tree puts the root at (0, 0)   *)
(*                      and a node of depth n at y = n * level_separation; *)
(*                      the x it gives to the other nodes is not modelled, *)
(*                      x_known / y_known say whether x / y is             *)
(*   all_rels_displayed, is_private                                        *)
(*   tid                <<id, 0>> for the tid id, <<id, n>> for id--xn     *)
(*   duplicate          0: the property is not set                         *)
(*   from, to, to_ancestry   positions in the tree; from_to says whether   *)
(*                      setupFromTo set from and to                        *)
(*   toggle             _toggle (0: the property is not set)               *)
(*   toggle_id          _toggle_id (0: not set)                            *)
(*   toggle_id_sp       _toggle_id_sp, a function of the spouse id         *)
(***************************************************************************)
node_separation == 250

level_separation == 150

\* the options the store hands to CalculateTree besides
\* single_parent_empty_card; a depth of -1 stands for undefined, private 0
\* for no private_cards_config and private p for the condition d => d.id === p
DefaultOptions ==
  [ancestry_depth |-> -1, progeny_depth |-> -1, one_level_rels |-> FALSE,
   show_siblings_of_main |-> FALSE, duplicate_branch_toggle |-> FALSE,
   private |-> 0, is_horizontal |-> FALSE]

layoutNode(id, is_ancestry, parent, depth, y) ==
  [id |-> id, is_ancestry |-> is_ancestry, added |-> FALSE, sibling |-> FALSE,
   depth |-> depth, parent |-> parent, spouse |-> 0, parents |-> <<>>, children |-> <<>>,
   x |-> 0, y |-> y, x_known |-> parent = 0, y_known |-> TRUE,
   all_rels_displayed |-> FALSE, is_private |-> FALSE, tid |-> <<0, 0>>, duplicate |-> 0,
   from |-> <<>>, to |-> <<>>, to_ancestry |-> <<>>, from_to |-> FALSE,
   toggle |-> 0, toggle_id |-> 0, toggle_id_sp |-> <<>>, groups |-> {}, groups_sp |-> {}]

\* root.descendants() of a hierarchy whose children arrays are ch: the
\* positions in nodes that root still reaches, breadth first
descendants(nodes, ch) ==
  forEach(LAMBDA kept, p :
            IF p = 1 \/ (includes(kept, nodes[p].parent) /\ includes(ch[nodes[p].parent], p))
            THEN Append(kept, p) ELSE kept,
          <<>>, [p \in 1..Len(nodes) |-> p])

\* setToggleIds of the ancestry side: the _toggle_id of node d
toggleIdOf(groups, d) ==
  forEach(LAMBDA id, g : IF includes(groups[g], d) THEN g ELSE id,
          0, [g \in 1..Len(groups) |-> g])

\* setToggleIds of the progeny side: the _toggle_id_sp of node d
toggleIdSpOf(groups, d) ==
  forEach(LAMBDA ids, g :
            forEach(LAMBDA ids1, m : IF m.d = d THEN setProp(ids1, m.p2, g) ELSE ids1,
                    ids, groups[g]),
          <<>>, [g \in 1..Len(groups) |-> g])

\* the positions in ancestry_duplicates of the groups that hold node d
groupsOf(groups, d) == {g \in 1..Len(groups) : includes(groups[g], d)}

\* the pairs <<p2, g>> such that progeny_duplicates[g] holds node d with its
\* spouse p2
groupsSpOf(groups, d) ==
  UNION {{<<groups[g][m].p2, g>> : m \in {n \in 1..Len(groups[g]) : groups[g][n].d = d}} :
         g \in 1..Len(groups)}

\* calculateTreePositions with trimTree and handleDuplicateHierarchy on one
\* side: [nodes, ch, kept, tg, groups, toggle], kept being root.descendants()
sideOf(nodes, st) ==
  [nodes |-> nodes, ch |-> st.ch, kept |-> descendants(nodes, st.ch), tg |-> st.tg,
   groups |-> st.groups, toggle |-> IF "toggle" \in DOMAIN st THEN st.toggle ELSE <<>>]

hierarchySide(nodes, data, is_ancestry, max_depth, duplicate_branch_toggle, tg) ==
  IF ~duplicate_branch_toggle
  THEN sideOf(nodes, [ch |-> trimTree(nodes, childrenOf(nodes), max_depth), tg |-> tg,
                      groups |-> <<>>])
  ELSE IF is_ancestry
  THEN sideOf(nodes, handleDuplicateHierarchyAncestry(
                       nodes, trimTree(nodes, childrenOf(nodes), max_depth), tg))
  ELSE sideOf(nodes, handleDuplicateHierarchyProgeny(
                       nodes, data, trimTree(nodes, childrenOf(nodes), max_depth), tg))

\* mergeSides on the pruned hierarchies: [...children, ...parents.slice(1)],
\* the ancestors of depth 1 hanging on children[0]
mergeSidesPruned(side_c, side_p, level_sep) ==
  LET child(p) ==
        [layoutNode(side_c.nodes[p].id, FALSE, indexOf(side_c.kept, side_c.nodes[p].parent),
                    side_c.nodes[p].depth, side_c.nodes[p].depth * level_sep)
           EXCEPT !.toggle_id_sp = toggleIdSpOf(side_c.groups, p),
                  !.groups_sp = groupsSpOf(side_c.groups, p)]
      parent(p) ==
        [layoutNode(side_p.nodes[p].id, TRUE,
                    IF side_p.nodes[p].parent = 1 THEN 1
                    ELSE Len(side_c.kept) + indexOf(side_p.kept, side_p.nodes[p].parent) - 1,
                    side_p.nodes[p].depth, side_p.nodes[p].depth * level_sep)
           EXCEPT !.toggle = prop(side_p.toggle, p),
                  !.toggle_id = toggleIdOf(side_p.groups, p),
                  !.groups = groupsOf(side_p.groups, p)]
  IN  [k \in 1..(Len(side_c.kept) + Len(side_p.kept) - 1) |->
         IF k <= Len(side_c.kept) THEN child(side_c.kept[k])
         ELSE parent(side_p.kept[k - Len(side_c.kept) + 1])]

setupChildrenAndParents(tree) ==
  LET hanging(k, anc) ==
        SelectSeq([j \in 1..Len(tree) |-> j],
                  LAMBDA j : tree[j].parent = k /\ tree[j].is_ancestry = anc)
  IN  [k \in 1..Len(tree) |->
         [tree[k] EXCEPT !.parents = hanging(k, TRUE), !.children = hanging(k, FALSE)]]

\* a placement that leaves the node where it is and puts its spouses
\* alternately on its two sides
RECURSIVE setupSpousesXY_alternate(_, _, _, _, _)
setupSpousesXY_alternate(tree, i, data, one_level_rels, node_sep) ==
  IF i = 0 THEN tree
  ELSE IF ~tree[i].is_ancestry /\ Len(data[findIndex(data, tree[i].id)].rels.spouses) > 0
          /\ ~(one_level_rels /\ tree[i].depth > 0)
  THEN setupSpousesXY_alternate(
         tree \o [j \in 1..Len(data[findIndex(data, tree[i].id)].rels.spouses) |->
                    [layoutNode(data[findIndex(data, tree[i].id)].rels.spouses[j], FALSE, 0,
                                tree[i].depth, tree[i].y)
                       EXCEPT !.added = TRUE, !.spouse = i,
                              !.x = tree[i].x
                                      + node_sep * ((j + 1) \div 2) * (IF j % 2 = 1 THEN -1 ELSE 1),
                              !.x_known = tree[i].x_known]],
         i - 1, data, one_level_rels, node_sep)
  ELSE setupSpousesXY_alternate(tree, i - 1, data, one_level_rels, node_sep)

\* setupSpouses with the coordinates: for (let i = tree.length; i--;)
RECURSIVE setupSpousesXY(_, _, _, _, _)
setupSpousesXY(tree, i, data, one_level_rels, node_sep) ==
  IF i = 0 THEN tree
  ELSE LET d    == tree[i]
           p    == data[findIndex(data, d.id)]
           side == IF p.data.gender = "M" THEN -1 ELSE 1
           d_x  == d.x + ((Len(p.rels.spouses) * node_sep) \div 2) * side
           new  == [j \in 1..Len(p.rels.spouses) |->
                      [layoutNode(p.rels.spouses[j], FALSE, 0, d.depth, d.y)
                         EXCEPT !.added = TRUE, !.spouse = i,
                                !.x = d_x - (node_sep * j) * side, !.x_known = d.x_known]]
       IN  IF ~d.is_ancestry /\ Len(p.rels.spouses) > 0 /\ ~(one_level_rels /\ d.depth > 0)
           THEN setupSpousesXY([array(tree) EXCEPT ![i].x = d_x] \o new, i - 1, data,
                               one_level_rels, node_sep)
           ELSE setupSpousesXY(tree, i - 1, data, one_level_rels, node_sep)

\* d.spouses
spouseNodes(tree, k) == SelectSeq([j \in 1..Len(tree) |-> j], LAMBDA j : tree[j].spouse = k)

\* setupSiblings: [tree, err]; main.parents.find throws when main.parents is
\* not set
findSiblings(data, main) ==
  SelectSeq(data, LAMBDA d :
    /\ d.id # main.id
    /\ \/ main.rels.father # 0 /\ d.rels.father = main.rels.father
       \/ main.rels.mother # 0 /\ d.rels.mother = main.rels.mother)

\* main.parents.find(d => d.data.id === id), 0 for undefined
findParent(tree, id) ==
  LET hits == SelectSeq(tree[1].parents, LAMBDA q : tree[q].id = id)
  IN  IF Len(hits) = 0 THEN 0 ELSE hits[1]

\* the comparator of positionSiblings orders by: without mother first, then
\* with father first; Array.prototype.sort is stable
siblingRank(tree, p) ==
  (IF findParent(tree, p.rels.mother) # 0 THEN 2 ELSE 0)
    + (IF findParent(tree, p.rels.father) # 0 THEN 0 ELSE 1)

positionSiblings(tree, main, siblings, node_sep) ==
  LET all     == <<main>> \o siblings
      ranked(r) == SelectSeq(all, LAMBDA p : siblingRank(tree, p) = r)
      sorted_siblings == ranked(0) \o ranked(1) \o ranked(2) \o ranked(3)
      xs      == {tree[1].x} \cup {tree[s].x : s \in Range(spouseNodes(tree, 1))}
      lo      == CHOOSE v \in xs : \A w \in xs : v <= w
      hi      == CHOOSE v \in xs : \A w \in xs : w <= v
      at(id)  == CHOOSE i \in 1..Len(all) : sorted_siblings[i].id = id
      x(id)   == IF at(id) < at(main.id) THEN lo - node_sep * (at(main.id) - at(id))
                 ELSE hi + node_sep * (at(id) - at(main.id))
  IN  [i \in 1..Len(siblings) |-> x(siblings[i].id)]

setupSiblings(tree, data, node_sep) ==
  LET main     == data[findIndex(data, tree[1].id)]
      found(id) == IF findParent(tree, id) = 0 THEN <<>> ELSE <<findParent(tree, id)>>
      sib(p, x) == [layoutNode(p.id, FALSE, 0, tree[1].depth - 1, tree[1].y)
                      EXCEPT !.sibling = TRUE, !.x = x, !.x_known = TRUE,
                             !.parents = found(p.rels.father) \o found(p.rels.mother)]
      add(siblings, xs) ==
        tree \o [i \in 1..Len(siblings) |-> sib(siblings[i], xs[i])]
      place(siblings) ==
        IF Len(siblings) = 0 THEN [tree |-> tree, err |-> FALSE]
        ELSE IF Len(tree[1].parents) = 0 THEN [tree |-> tree, err |-> TRUE]
        ELSE [tree |-> add(siblings, positionSiblings(tree, main, siblings, node_sep)),
              err |-> FALSE]
  IN  place(findSiblings(data, main))

\* a positioning that leaves the ancestors below the focus
nodePositioning_keepSign(tree, is_horizontal) ==
  [k \in 1..Len(tree) |->
     IF is_horizontal
     THEN [tree[k] EXCEPT !.x = tree[k].y, !.y = tree[k].x, !.x_known = tree[k].y_known,
                          !.y_known = tree[k].x_known]
     ELSE tree[k]]

\* nodePositioning: the ancestors go above the focus, and a horizontal chart
\* swaps the axes
nodePositioning(tree, is_horizontal) ==
  LET signed(d) == [d EXCEPT !.y = IF d.is_ancestry THEN -d.y ELSE d.y]
      swapped(d) == [d EXCEPT !.x = d.y, !.y = d.x, !.x_known = d.y_known,
                              !.y_known = d.x_known]
  IN  [k \in 1..Len(tree) |-> IF is_horizontal THEN swapped(signed(tree[k]))
                              ELSE signed(tree[k])]

\* a test that looks at the parents and the spouses only
isAllRelativeDisplayed_noChildren(d, tree, data) ==
  \A rel_id \in (({data[findIndex(data, d.id)].rels.father,
                    data[findIndex(data, d.id)].rels.mother}
                     \cup Range(data[findIndex(data, d.id)].rels.spouses)) \ {0}) :
    \E k \in 1..Len(tree) : tree[k].id = rel_id

isAllRelativeDisplayed(d, tree, data) ==
  LET r        == data[findIndex(data, d.id)].rels
      all_rels == SelectSeq(<<r.father, r.mother>> \o r.spouses
                              \o (IF r.chdef THEN r.children ELSE <<>>),
                            LAMBDA v : v # 0)
  IN  \A rel_id \in Range(all_rels) : \E k \in 1..Len(tree) : tree[k].id = rel_id

\* isPrivate(d_id): checkParentsAndSpouses walks father, mother and spouses
\* from d_id, each person once, until the condition holds.  No person of the
\* model carries _new_rel_data.
RECURSIVE checkParentsAndSpouses(_, _, _)
checkParentsAndSpouses(data, checked, condition_id) ==
  LET rels(id) == data[findIndex(data, id)].rels
      next == checked \cup
                (UNION {{rels(id).father, rels(id).mother} \cup Range(rels(id).spouses)
                          : id \in checked} \ {0})
  IN  IF condition_id \in checked THEN TRUE
      ELSE IF next = checked THEN FALSE
      ELSE checkParentsAndSpouses(data, next, condition_id)

handlePrivateCards(tree, data, condition_id) ==
  [k \in 1..Len(tree) |->
     [tree[k] EXCEPT !.is_private = checkParentsAndSpouses(data, {tree[k].id}, condition_id)]]

\* a numbering that leaves the first node of a person its id and counts the
\* further ones from 1
setupTid_firstKeepsId(tree) ==
  [k \in 1..Len(tree) |->
     [tree[k] EXCEPT
        !.tid = <<tree[k].id, Cardinality({j \in 1..(k - 1) : tree[j].id = tree[k].id})>>,
        !.duplicate =
          IF Cardinality({j \in 1..Len(tree) : tree[j].id = tree[k].id}) > 1
          THEN Cardinality({j \in 1..Len(tree) : tree[j].id = tree[k].id}) ELSE 0]]

\* setupTid: a node whose id was met before renumbers every node of that id
setupTid(tree) ==
  LET same(t, k) == SelectSeq([j \in 1..Len(t) |-> j], LAMBDA j : t[j].id = t[k].id)
      number(t, duplicates) ==
        forEach(LAMBDA t1, i : [array(t1) EXCEPT ![duplicates[i]].tid = <<t1[duplicates[i]].id, i>>,
                                          ![duplicates[i]].duplicate = Len(duplicates)],
                t, [i \in 1..Len(duplicates) |-> i])
      step(s, k) ==
        IF includes(s.ids, s.tree[k].id)
        THEN [tree |-> number(s.tree, same(s.tree, k)),
              ids  |-> s.ids \o [i \in 1..Len(same(s.tree, k)) |-> s.tree[k].id]]
        ELSE [tree |-> [array(s.tree) EXCEPT ![k].tid = <<s.tree[k].id, 0>>],
              ids  |-> Append(s.ids, s.tree[k].id)]
  IN  forEach(step, [tree |-> tree, ids |-> <<>>], [k \in 1..Len(tree) |-> k]).tree

setupFromTo(tree, data, main_id) ==
  LET matching(t, k) ==
        SelectSeq(spouseNodes(t, t[k].parent),
                  LAMBDA s : t[s].id # 0 /\
                             t[s].id \in {data[findIndex(data, t[k].id)].rels.father,
                                          data[findIndex(data, t[k].id)].rels.mother})
      first(found) == IF Len(found) = 0 THEN <<>> ELSE <<found[1]>>
      linked(t, k, from) ==
        forEach(LAMBDA t1, p : [array(t1) EXCEPT ![p].to = Append(@, k)],
                [array(t) EXCEPT ![k].from = from, ![k].from_to = TRUE], from)
      step(t, k) ==
        IF t[k].id = main_id
        THEN [array(t) EXCEPT ![k].from = <<>>, ![k].to = <<>>, ![k].to_ancestry = t[k].parents,
                       ![k].from_to = TRUE]
        ELSE IF t[k].is_ancestry
        THEN [array(t) EXCEPT ![k].from = <<t[k].parent>>, ![k].to = t[k].parents,
                       ![k].from_to = TRUE]
        ELSE IF t[k].added
        THEN [array(t) EXCEPT ![k].from = <<>>, ![k].to = <<>>, ![k].from_to = TRUE]
        ELSE IF t[k].sibling THEN t
        ELSE linked(t, k, <<t[k].parent>> \o first(matching(t, k)))
  IN  forEach(step, tree, [k \in 1..Len(tree) |-> k])

handleDuplicateSpouseToggle(tree, sp, main_id) ==
  LET key(d) == <<tree[d.spouse].id,
                  IF tree[d.spouse].id = main_id THEN 0
                  ELSE tree[tree[d.spouse].parent].id,
                  d.id>>
  IN  [k \in 1..Len(tree) |->
         IF tree[k].spouse # 0 /\ tree[k].duplicate # 0 /\ key(tree[k]) \in DOMAIN sp
         THEN [tree[k] EXCEPT !.toggle = sp[key(tree[k])]]
         ELSE tree[k]]

\* CalculateTree as createStore.calcTree calls it, in the stages of its body.
\* The result is [data, tree, tg, main_id, err]: tg are the toggle values the
\* persons carry; a TypeError leaves the data mutated so far and no tree.
maxDepth(o, is_ancestry) ==
  IF o.one_level_rels THEN 1
  ELSE IF is_ancestry THEN o.ancestry_depth ELSE o.progeny_depth

\* if (is_horizontal) [node_separation, level_separation] = [level_separation, node_separation]
nodeSep(o) == IF o.is_horizontal THEN level_separation ELSE node_separation

levelSep(o) == IF o.is_horizontal THEN node_separation ELSE level_separation

\* data_stash.forEach(d => d.main = d === main)
flagMain(data_stash, main) ==
  [i \in 1..Len(data_stash) |-> [data_stash[i] EXCEPT !.main = (data_stash[i].id = main)]]

displayAllRels(t, d) ==
  [k \in 1..Len(t) |-> [t[k] EXCEPT !.all_rels_displayed = isAllRelativeDisplayed(t[k], t, d)]]

\* if (private_cards_config) handlePrivateCards(...)
privateCards(t, d, o) == IF o.private # 0 THEN handlePrivateCards(t, d, o.private) ELSE t

\* if (duplicate_branch_toggle) handleDuplicateSpouseToggle(tree)
spouseToggles(t, o, tg1, main) ==
  IF o.duplicate_branch_toggle THEN handleDuplicateSpouseToggle(t, tg1.sp, main) ELSE t

\* nodePositioning to handleDuplicateSpouseToggle on the tree t
decorate(t, d, main, o, tg1) ==
  spouseToggles(
    setupFromTo(
      setupTid(privateCards(displayAllRels(nodePositioning(t, o.is_horizontal), d), d, o)),
      d, main),
    o, tg1, main)

\* from setupSiblings on: s is [tree, err]
layoutSiblings(s, d, main, o, tg1) ==
  [data |-> flagMain(d, main),
   tree |-> IF s.err THEN <<>> ELSE decorate(s.tree, d, main, o, tg1),
   tg |-> tg1, main_id |-> main, err |-> s.err]

\* if (show_siblings_of_main && !one_level_rels) setupSiblings(...): [tree, err]
withSiblings(t, d, o) ==
  IF o.show_siblings_of_main /\ ~o.one_level_rels THEN setupSiblings(t, d, nodeSep(o))
  ELSE [tree |-> t, err |-> FALSE]

\* from setupSpouses on: t is the merged tree
layoutSpouses(t, d, main, o, tg1) ==
  layoutSiblings(
    withSiblings(setupSpousesXY(t, Len(t), d, o.one_level_rels, nodeSep(o)), d, o),
    d, main, o, tg1)

\* from the ancestry hierarchy on: side_c is the progeny side
layoutParents(side_c, side_p, d, main, o) ==
  layoutSpouses(setupChildrenAndParents(mergeSidesPruned(side_c, side_p, levelSep(o))),
                d, main, o, side_p.tg)

layoutChildren(side_c, d, main, o) ==
  layoutParents(side_c,
                hierarchySide(calculateTreePositions(main, d, TRUE), d, TRUE,
                              maxDepth(o, TRUE), o.duplicate_branch_toggle, side_c.tg),
                d, main, o)

layoutAround(d, main, o, tg) ==
  layoutChildren(hierarchySide(calculateTreePositions(main, d, FALSE), d, FALSE,
                               maxDepth(o, FALSE), o.duplicate_branch_toggle, tg),
                 d, main, o)

layoutStart(r0, main_id, o, tg) ==
  IF r0.err THEN [data |-> r0.data, tree |-> <<>>, tg |-> tg, main_id |-> main_id,
                  err |-> TRUE]
  ELSE layoutAround(r0.data,
                    IF main_id # 0 /\ inData(r0.data, main_id) THEN main_id
                    ELSE r0.data[1].id,
                    o, tg)

CalculateTreeWith(data, main_id, single_parent_empty_card, o, tg, avoid) ==
  IF Len(data) = 0
  THEN [data |-> <<>>, tree |-> <<>>, tg |-> tg, main_id |-> 0, err |-> FALSE]
  ELSE IF single_parent_empty_card THEN layoutStart(createRelsToAdd(data, avoid), main_id, o, tg)
  ELSE layoutStart(Ok(data), main_id, o, tg)


(***************************************************************************)
(* The store and the handlers.                                             *)
(*   data, tree, main_id, single_parent_empty_card   state of createStore  *)
(*   err   the last handler ended in a TypeError                           *)
(*   op    the last handler and its arguments; threw says that its edit    *)
(*         operation ended in a TypeError                                  *)
(*   steps the number of handlers run so far                               *)
(*   pre   data when the last handler started                              *)
(*   mid   data when the handler's edit operation returned, before the     *)
(*         handler's store.updateTree()                                    *)
(*   rt    the round trip under way: after a hide by cardShowHideRels the  *)
(*         rels before it (rels) and after its toggleRels (hidden), and    *)
(*         whether a toggleRels of the round trip threw; phase is "shown"  *)
(*         after the show of the same node on the graph the hide left      *)
(***************************************************************************)
(*   main_id_history   the store's history of main ids (0 stands for null) *)
(*   opts, tg   the options of the store's state and the duplicate toggle  *)
(*         values kept on the persons                                      *)
(*   on_update   the layouts the onUpdate subscriber read, one for each    *)
(*         time the last handler invoked it                                *)
(*   link  the _new_rel_data of the persons that carry one, by id, and the *)
(*         options of the last createLinkExistingRelative(datum)           *)
(*   undo  history and history_index of createHistory; a snapshot is the   *)
(*         copied data array and the main_id property set on it            *)
VARIABLES data, tree, main_id, single_parent_empty_card, err, op, steps, pre, mid, rt,
          main_id_history, opts, tg, on_update, link, undo, api

vars == <<data, tree, main_id, single_parent_empty_card, err, op, steps, pre, mid, rt,
          main_id_history, opts, tg, on_update, link, undo, api>>

\* Array.prototype.slice(-n): the last n elements
sliceLast(s, n) == IF Len(s) <= n THEN s ELSE SubSeq(s, Len(s) - n + 1, Len(s))

\* store.updateMainId(id) on a store with main id m and history h
updateMainId(m, h, id) ==
  IF id = m THEN [main_id |-> m, main_id_history |-> h]
  ELSE [main_id |-> id,
        main_id_history |-> Append(sliceLast(SelectSeq(h, LAMBDA d : d # id), 10), id)]

\* store.updateTree with c what calcTree() returns: state.tree = calcTree()
\* and then onUpdate(props); a calcTree() that throws leaves state.tree as it
\* was and the subscriber is not reached
storeUpdateTree(old_tree, c) ==
  IF c.err THEN [tree |-> old_tree, on_update |-> <<>>]
  ELSE [tree |-> c.tree, on_update |-> <<c.tree>>]

\* the rels of every person, by id
relsOf(d) ==
  [id \in DataIds(d) |->
     LET p == d[findIndex(d, id)] IN
     [father |-> p.rels.father, mother |-> p.rels.mother,
      spouses |-> p.rels.spouses, children |-> p.rels.children]]

NoRoundTrip ==
  [phase |-> "none", id |-> 0, spouse |-> 0, rels |-> <<>>, hidden |-> <<>>, threw |-> FALSE]

\* ids that a fresh uuid cannot collide with
usedIds == AllIds(data) \cup {tree[k].id : k \in 1..Len(tree)} \cup ({main_id} \ {0})

\* no person carries _new_rel_data and no form was created
NoLink == [new_rel_data |-> <<>>, datum_id |-> 0, options |-> <<>>, err |-> FALSE]

\* createHistory: let history = [], history_index = -1
NoUndo == [history |-> <<>>, history_index |-> -1, dropped |-> 0]

\* no document on the server, no request in flight
NoApi == [server |-> <<>>, requests |-> <<>>]

Op(name, id, rel, hide) ==
  [name |-> name, id |-> id, rel |-> rel, hide |-> hide, threw |-> FALSE]

\* store.updateTree() after an edit that left r = [data, err], with m the
\* store's main_id at that point; an edit that threw ends the handler
Commit(o, r, m, round_trip) ==
  /\ steps < MaxSteps
  /\ \E c \in {CalculateTree(r.data, m, single_parent_empty_card,
                              AllIds(r.data) \cup usedIds)} :
       IF r.err
       THEN /\ data' = r.data /\ tree' = tree /\ main_id' = main_id /\ err' = TRUE
            /\ main_id_history' = main_id_history
            /\ on_update' = <<>>
       ELSE /\ data' = c.data
            /\ err' = c.err
            /\ tree' = storeUpdateTree(tree, c).tree
            /\ on_update' = storeUpdateTree(tree, c).on_update
            /\ \E u \in {updateMainId(main_id, main_id_history, m)} :
               \E v \in {IF ~c.err /\ m = 0
                         THEN updateMainId(u.main_id, u.main_id_history, c.main_id)
                         ELSE u} :
                 main_id' = v.main_id /\ main_id_history' = v.main_id_history
  /\ DataIds(data') \subseteq Ids
  /\ steps' = steps + 1
  /\ op' = [o EXCEPT !.threw = r.err]
  /\ pre' = data
  /\ mid' = r.data
  /\ rt' = round_trip
  /\ UNCHANGED <<single_parent_empty_card, opts, tg, link, undo, api>>

\* the graph the chart is created with: one male person with data
firstNode == <<createNewPerson(1, "M", TRUE, EmptyRels)>>

\* the store created with data_stash and its first updateTree()
InitWith(data_stash) ==
  /\ single_parent_empty_card \in BOOLEAN
  /\ \E c \in {CalculateTree(data_stash, 0, single_parent_empty_card,
                              UNION {mentionedIds(data_stash[i]) : i \in 1..Len(data_stash)})} :
       /\ data = c.data /\ tree = c.tree /\ main_id = c.main_id
       /\ main_id_history = updateMainId(0, <<>>, c.main_id).main_id_history
  /\ err = FALSE
  /\ op = Op("init", 0, 0, FALSE)
  /\ steps = 0
  /\ pre = data
  /\ mid = data
  /\ rt = NoRoundTrip
  /\ opts = DefaultOptions
  /\ tg = NoToggles
  /\ on_update = <<tree>>
  /\ link = NoLink /\ undo = NoUndo /\ api = NoApi

Init == InitWith(firstNode)

\* the persons a relative can be added to
Targets == {i \in 1..Len(data) : ~data[i].to_add}

\* add a son or a daughter of gender g to data[t]; other_parent as in addChild
AddChild(t, g, other_parent) ==
  /\ steps < MaxSteps
  /\ other_parent \in {0, -1} \cup {x \in Range(data[t].rels.spouses) : inData(data, x)}
  /\ \E used \in {usedIds} :
     \E datum \in {createNewPerson(freshId(used), g, TRUE, EmptyRels)} :
       Commit(Op("addChild", datum.id, data[t].id, FALSE),
              addNewPersonAndHandleRels(data, datum, IF g = "M" THEN "son" ELSE "daughter",
                                        data[t].id, other_parent, used),
              main_id, NoRoundTrip)

\* add a father (g = "M") or a mother (g = "F") to data[t], whose slot is
\* empty or held by a to_add placeholder
AddParent(t, g) ==
  /\ steps < MaxSteps
  /\ \E used \in {usedIds} :
     \E datum \in {createNewPerson(freshId(used), g, TRUE, EmptyRels)} :
     \E held \in {getSlot(data[t], parentSlot(datum))} :
       /\ held = 0 \/ (inData(data, held) /\ data[findIndex(data, held)].to_add)
       /\ Commit(Op("addParent", datum.id, data[t].id, FALSE),
                 addNewPersonAndHandleRels(data, datum,
                                           IF g = "M" THEN "father" ELSE "mother",
                                           data[t].id, 0, used),
                 main_id, NoRoundTrip)

\* add a spouse to data[t]; the new person has the gender
\* createNewPersonWithGenderFromRel derives
AddSpouse(t) ==
  /\ steps < MaxSteps
  /\ \E used \in {usedIds} :
     \E datum \in {[createNewPersonWithGenderFromRel(freshId(used), "spouse", data[t])
                      EXCEPT !.data.attrs = TRUE]} :
       Commit(Op("addSpouse", datum.id, data[t].id, FALSE),
              addNewPersonAndHandleRels(data, datum, "spouse", data[t].id, 0, used),
              main_id, NoRoundTrip)

\* cardEdit's postSubmit() for the card of a to_add person
CardEditSubmit(k) ==
  /\ steps < MaxSteps
  /\ inData(data, tree[k].id)
  /\ data[findIndex(data, tree[k].id)].to_add
  /\ Commit(Op("submit", tree[k].id, 0, FALSE),
            Ok(moveToAddToAdded(tree[k].id, data)), main_id, NoRoundTrip)

\* cardEdit's postSubmit({delete: true})
CardEditDelete(k) ==
  /\ steps < MaxSteps
  /\ inData(data, tree[k].id)
  /\ \E d1 \in {moveToAddToAdded(tree[k].id, data)} :
     \E datum \in {d1[findIndex(d1, tree[k].id)]} :
       Commit(Op("delete", datum.id, 0, FALSE),
              Ok(deletePerson(datum, d1, usedIds)),
              IF datum.main THEN 0 ELSE main_id, NoRoundTrip)

CardShowHideRels(k) ==
  /\ steps < MaxSteps
  /\ inData(data, tree[k].id)
  /\ tree[k].spouse # 0 => inData(data, tree[tree[k].spouse].id)
  /\ hasLinkBreakIcon(data, tree, k)
  /\ \E i \in {findIndex(data, tree[k].id)} :
     \E hide \in {~data[i].hide_rels} :
     \E sp \in {IF tree[k].spouse = 0 THEN 0 ELSE tree[tree[k].spouse].id} :
     \E r \in {toggleRels([array(data) EXCEPT ![i].hide_rels = hide], tree, k, hide)} :
       Commit(Op(IF hide THEN "hide" ELSE "show", tree[k].id, sp, hide), r, main_id,
              IF hide
              THEN [phase |-> "hidden", id |-> tree[k].id, spouse |-> sp,
                    rels |-> relsOf(data), hidden |-> relsOf(r.data), threw |-> r.err]
              ELSE IF /\ rt.phase = "hidden" /\ rt.id = tree[k].id /\ rt.spouse = sp
                      /\ rt.hidden = relsOf(data)
                   THEN [rt EXCEPT !.phase = "shown", !.threw = rt.threw \/ r.err]
                   ELSE NoRoundTrip)

CardChangeMain(k) ==
  /\ steps < MaxSteps
  /\ \A j \in 1..Len(tree) : inData(data, tree[j].id)
  /\ Commit(Op("changeMain", tree[k].id, 0, FALSE),
            toggleAllRels(Ok(data), tree, 1, FALSE), tree[k].id, NoRoundTrip)

Next ==
  \/ \E t \in Targets, g \in {"M", "F"}, o \in -1..MaxPersons : AddChild(t, g, o)
  \/ \E t \in Targets, g \in {"M", "F"} : AddParent(t, g)
  \/ \E t \in Targets : AddSpouse(t)
  \/ \E k \in 1..Len(tree) : CardEditSubmit(k)
  \/ \E k \in 1..Len(tree) : CardEditDelete(k)
  \/ \E k \in 1..Len(tree) : CardShowHideRels(k)
  \/ \E k \in 1..Len(tree) : CardChangeMain(k)

Spec == Init /\ [][Next]_vars

(***************************************************************************)
(* Properties.  pre is the graph a handler started on, mid the graph its   *)
(* edit operation returned, data the graph after the layout run.           *)
(***************************************************************************)
person(d, id) == d[findIndex(d, id)]

\* every id in a relation slot is a person of d that holds the mirror relation
Mirrored(d) ==
  \A i \in 1..Len(d) :
    /\ \A x \in {d[i].rels.father, d[i].rels.mother} \ {0} :
         inData(d, x) /\ includes(person(d, x).rels.children, d[i].id)
    /\ \A x \in Range(d[i].rels.children) :
         inData(d, x) /\ d[i].id \in {person(d, x).rels.father, person(d, x).rels.mother}
    /\ \A x \in Range(d[i].rels.spouses) :
         inData(d, x) /\ includes(person(d, x).rels.spouses, d[i].id)

\* reciprocity over the persons of d: A has B as father or mother exactly when
\* B lists A as a child, and spouses list each other
Reciprocal(d) ==
  \A i, j \in 1..Len(d) :
    /\ (d[i].rels.father = d[j].id \/ d[i].rels.mother = d[j].id)
         <=> includes(d[j].rels.children, d[i].id)
    /\ includes(d[i].rels.spouses, d[j].id) <=> includes(d[j].rels.spouses, d[i].id)

\* every id in a relation slot is the id of a person of d
NoDangling(d) == \A i \in 1..Len(d) : Range(relIds(d[i])) \subseteq DataIds(d)

\* the person in a father slot is male, the person in a mother slot female
GenderConsistent(d) ==
  \A i \in 1..Len(d) :
    /\ inData(d, d[i].rels.father) => person(d, d[i].rels.father).data.gender = "M"
    /\ inData(d, d[i].rels.mother) => person(d, d[i].rels.mother).data.gender = "F"

\* the ids reachable from S over rels through persons of d other than avoid
RECURSIVE Reach(_, _, _)
Reach(d, S, avoid) ==
  IF \E y \in S : inData(d, y) /\ \E x \in Range(relIds(person(d, y))) : x # avoid /\ x \notin S
  THEN Reach(d, S \cup {x \in AllIds(d) \ {avoid} :
                          \E y \in S : inData(d, y) /\ includes(relIds(person(d, y)), x)},
             avoid)
  ELSE S

\* some relative of p has no path over rels to target that avoids p
Stranded(d, p, target) ==
  \E r \in Range(relIds(p)) : ~(inData(d, r) /\ target \in Reach(d, {r}, p.id))

Demoted(d, p) ==
  /\ inData(d, p.id)
  /\ person(d, p.id).unknown
  /\ person(d, p.id).data = [gender |-> p.data.gender, attrs |-> FALSE]
  /\ person(d, p.id).rels = p.rels

Removed(d, p) ==
  /\ ~inData(d, p.id)
  /\ \A i \in 1..Len(d) : ~includes(relIds(d[i]), p.id)

\* the persons the layout run of the last handler created
Created == DataIds(data) \ DataIds(mid)

\* a graph the Synthetic Augmentor leaves as it is
Augmented(d) == createRelsToAdd(d, AllIds(d)) = Ok(d)

AddOrDelete == op.name \in {"addChild", "addParent", "addSpouse", "delete"}

C2_NoDanglingIds == NoDangling(mid)

\* C3: after deletePerson(P) on a well-formed graph, either P is absent and no
\* remaining person's rels holds P.id, or P is present with unknown = true, its
\* gender, no other data attribute and its rels as they were.
C3_DeleteOutcome ==
  (op.name = "delete" /\ Mirrored(pre)) =>
    (Removed(mid, person(pre, op.id)) \/ Demoted(mid, person(pre, op.id)))

C3_Witness ==
  /\ op.name = "delete" /\ Mirrored(pre)
  /\ Demoted(mid, person(pre, op.id))
  /\ person(pre, op.id).data.attrs
  /\ Len(person(pre, op.id).rels.children) > 0

\* C4: deletePerson(P) demotes P to unknown, keeping only its gender, exactly
\* when some relative of P has no path over rels to the first person of the
\* graph that avoids P, and removes P otherwise.
C4_DemotedIffCutsFromFirst ==
  op.name = "delete" =>
    IF Stranded(pre, person(pre, op.id), pre[1].id)
    THEN Demoted(mid, person(pre, op.id))
    ELSE ~inData(mid, op.id)

\* the chain A - B - C - D, each the only child of the one before, with A
\* first, after the delete of C
C4_Witness ==
  /\ op.name = "delete" /\ Len(pre) = 4 /\ op.id = pre[3].id
  /\ Range(relIds(pre[1])) = {pre[2].id}
  /\ Range(relIds(pre[2])) = {pre[1].id, pre[3].id}
  /\ Range(relIds(pre[3])) = {pre[2].id, pre[4].id}
  /\ Range(relIds(pre[4])) = {pre[3].id}
  /\ \A i \in 1..3 : pre[i].rels.children = <<pre[i + 1].id>>
  /\ pre[3].data.attrs
  /\ Demoted(mid, pre[3])

\* C5: deletePerson(P), for a P other than the focus, demotes P to unknown
\* exactly when some relative of P has no path over rels to the focused (main)
\* person that avoids P, and removes P otherwise, whichever position the focus
\* has in the graph.
C5_DemotedIffCutsFromFocus ==
  op.name = "delete" =>
    \A i \in 1..Len(pre) :
      (pre[i].main /\ pre[i].id # op.id) =>
        IF Stranded(pre, person(pre, op.id), pre[i].id)
        THEN Demoted(mid, person(pre, op.id))
        ELSE ~inData(mid, op.id)

\* C6: the graph is never empty: a deletePerson that removes its person (does
\* not demote it) and leaves none of the others (the to_add placeholders go
\* in the cascade) leaves one fresh blank person, with a new id, no data and
\* no rels.
C6_NeverEmpty ==
  /\ Len(mid) > 0 /\ Len(data) > 0
  /\ (/\ op.name = "delete"
      /\ ~Demoted(mid, person(pre, op.id))
      /\ DataIds(mid) \cap (DataIds(pre) \ {op.id}) = {}) =>
       /\ Len(mid) = 1
       /\ mid[1].id \notin AllIds(pre)
       /\ mid[1].data = [gender |-> "U", attrs |-> FALSE]
       /\ mid[1].rels = EmptyRels
       /\ ~mid[1].to_add /\ ~mid[1].unknown

C6_Witness ==
  /\ op.name = "delete" /\ DataIds(mid) \cap DataIds(pre) = {}
  /\ Len(mid) = 1 /\ pre[1].data.attrs

\* C7: toggleRels(node, hide) followed by toggleRels(the same node, show)
\* leaves the rels of every person as they were before the hide, and neither
\* call throws.
C7_HideShowRoundTrip ==
  rt.phase = "shown" => (~rt.threw /\ relsOf(mid) = rt.rels)

\* C8: after createRelsToAdd on a reciprocal, gender-consistent graph every
\* listed child has father and mother set; every placeholder created is
\* to_add, of the gender opposite to its partner, without other data, a mutual
\* spouse of its partner and lists exactly the children it was back-filled
\* into; and no person has more than one to_add spouse.
C8_AugmentorPostconditions ==
  (single_parent_empty_card /\ ~err /\ Mirrored(mid) /\ GenderConsistent(mid)) =>
    /\ \A i \in 1..Len(data) : \A c \in Range(data[i].rels.children) :
         /\ inData(data, c)
         /\ person(data, c).rels.father # 0 /\ person(data, c).rels.mother # 0
    /\ \A t \in Created :
         /\ person(data, t).to_add
         /\ ~person(data, t).data.attrs
         /\ Len(person(data, t).rels.spouses) = 1
         /\ \A a \in Range(person(data, t).rels.spouses) :
              /\ inData(mid, a)
              /\ includes(person(data, a).rels.spouses, t)
              /\ {person(data, a).data.gender, person(data, t).data.gender} = {"M", "F"}
         /\ Cardinality(Range(person(data, t).rels.children))
              = Len(person(data, t).rels.children)
         /\ \A c \in DataIds(data) :
              includes(person(data, t).rels.children, c)
                <=> t \in {person(data, c).rels.father, person(data, c).rels.mother}
         /\ \A c \in Range(person(data, t).rels.children) :
              /\ inData(mid, c)
              /\ 0 \in {person(mid, c).rels.father, person(mid, c).rels.mother}
    /\ \A i \in 1..Len(data) :
         Cardinality({x \in Range(data[i].rels.spouses) :
                        inData(data, x) /\ person(data, x).to_add}) <= 1

\* a placeholder created for a person who has a spouse and a child without
\* the other parent
C8_Witness ==
  /\ single_parent_empty_card /\ ~err /\ Mirrored(mid) /\ GenderConsistent(mid)
  /\ \E t \in Created :
       /\ Len(person(data, t).rels.children) >= 1
       /\ \E a \in Range(person(data, t).rels.spouses) :
            Len(person(data, a).rels.spouses) >= 2

\* C9: createRelsToAdd run on its own output adds no person and changes no
\* rels.
C9_AugmentorIdempotent ==
  (single_parent_empty_card /\ ~err) => Augmented(data)

\* a placeholder of an earlier run is in the graph of a later run
C9_Witness ==
  /\ single_parent_empty_card /\ ~err /\ op.name = "addChild"
  /\ \E i \in 1..Len(data) :
       data[i].to_add /\ data[i].id \notin Created /\ Len(data[i].rels.children) >= 2

\* C10: with single_parent_empty_card on, the layout run after a child C was
\* added to a father A without spouse adds exactly one to_add female B' with
\* A.rels.spouses = [B'] and C.rels.mother = B'; after moveToAddToAdded has
\* cleared the to_add of a placeholder, its id kept, the layout run creates no
\* placeholder and changes no rels, and neither does a further run.
C10_PlaceholderOnceThenNone ==
  /\ ( /\ op.name = "addChild" /\ single_parent_empty_card /\ ~err /\ Augmented(pre)
       /\ person(mid, op.rel).data.gender = "M"
       /\ person(mid, op.rel).rels.spouses = <<>>
       /\ person(mid, op.id).rels.mother = 0 )
     => /\ Cardinality(Created) = 1
        /\ \A b \in Created :
             /\ person(data, b).to_add /\ person(data, b).data.gender = "F"
             /\ person(data, op.rel).rels.spouses = <<b>>
             /\ person(data, op.id).rels.mother = b
             /\ person(data, op.id).rels.father = op.rel
  /\ (op.name = "submit" /\ single_parent_empty_card /\ Augmented(pre))
     => /\ inData(mid, op.id) /\ ~person(mid, op.id).to_add
        /\ Created = {}
        /\ relsOf(data) = relsOf(pre)
        /\ Augmented(data)

\* B' of the scenario promoted: A, C and B', nobody to_add
C10_Witness ==
  /\ op.name = "submit" /\ single_parent_empty_card /\ ~err /\ Len(data) = 3
  /\ person(pre, op.id).to_add /\ person(pre, op.id).data.gender = "F"
  /\ \A i \in 1..Len(data) : ~data[i].to_add
  /\ data[1].rels.spouses = <<op.id>>
  /\ \E i \in 1..Len(data) : data[i].rels.father = data[1].id /\ data[i].rels.mother = op.id

(***************************************************************************)
(* store.updateMainId on its own: a store just created, and calls with ids *)
(* the callers choose.  steps counts the calls.                            *)
(***************************************************************************)
\* the calls of one run
MaxCalls == 13

\* the ids handed to updateMainId: null, an id not handed in before (the
\* number of the call), the oldest and the latest entry of the history
MainIdInputs ==
  {0, steps + 1}
    \cup {main_id_history[i] : i \in {1, Len(main_id_history)} \cap 1..Len(main_id_history)}

HistoryInit ==
  /\ data = firstNode /\ tree = <<>> /\ main_id = 0 /\ main_id_history = <<>>
  /\ single_parent_empty_card = TRUE /\ err = FALSE
  /\ op = Op("createStore", 0, 0, FALSE)
  /\ steps = 0 /\ pre = data /\ mid = data /\ rt = NoRoundTrip
  /\ opts = DefaultOptions /\ tg = NoToggles /\ on_update = <<>>
  /\ link = NoLink /\ undo = NoUndo /\ api = NoApi

UpdateMainId(id) ==
  /\ steps < MaxCalls
  /\ \E u \in {updateMainId(main_id, main_id_history, id)} :
       main_id' = u.main_id /\ main_id_history' = u.main_id_history
  /\ steps' = steps + 1
  /\ op' = Op("updateMainId", id, 0, FALSE)
  /\ UNCHANGED <<data, tree, single_parent_empty_card, err, pre, mid, rt, opts, tg,
                 on_update, link, undo, api>>

HistoryNext == \E id \in MainIdInputs : UpdateMainId(id)

HistorySpec == HistoryInit /\ [][HistoryNext]_vars

\* C20: after any sequence of updateMainId calls main_id_history holds at most
\* 10 entries and no id twice.
C20_HistoryAtMostTenNoRepeat ==
  /\ Len(main_id_history) <= 10
  /\ \A i, j \in 1..Len(main_id_history) :
       main_id_history[i] = main_id_history[j] => i = j

(***************************************************************************)
(* The chart on a loaded graph: the option setters, the duplicate toggle   *)
(* and updateTree.  A setter only writes the option into the store's       *)
(* state; an action is the setter followed by the chart's updateTree().    *)
(*   opts   the options of the store's state (DefaultOptions at first)     *)
(*   tg     the toggle values kept on the persons                          *)
(* tree holds the layout nodes of the last CalculateTree that returned.    *)
(***************************************************************************)
\* the number of updateTree calls after the first
MaxUpdates == 2

\* three generations under persons 1..3, with the parents 4 and 5 of person 6
\* sharing the father 2; a man with two wives and a child of each; and four
\* generations in which the parents 6 and 7 of person 8 share the father 3, a
\* half-brother of the mother 5 of person 7
LayoutGraphs ==
  {fromParents(<<"M", "M", "F", "M", "F", "M">>, <<0, f2, 0, 2, 2, 4>>,
               <<0, 0, 0, 3, m5, m6>>) : f2 \in {0, 1}, m5 \in {0, 3}, m6 \in {0, 5}}
    \cup {fromParents(<<"M", "F", "F", "M", "M">>, <<0, 0, 0, 1, 1>>, <<0, 0, 0, 3, 2>>)}
    \cup {fromParents(<<"M", "F", "M", "F", "F", "M", "F", "M">>,
                    <<0, 0, 1, 0, 1, 3, 3, 6>>, <<0, 0, 2, 0, 0, 4, 5, 7>>)}

\* the ids a private_cards_config condition may name
PrivateIds == {2, 4}

\* new Date().getTime() at the handler under way
now == steps + 2

\* store.updateTree() on the graph d with the options o and the toggles t
LayoutCommit(o, d, spec, options, t) ==
  /\ steps < MaxUpdates
  /\ \E c \in {CalculateTreeWith(d, main_id, spec, options, t, AllIds(d) \cup usedIds)} :
       /\ data' = c.data
       /\ tree' = storeUpdateTree(tree, c).tree
       /\ on_update' = storeUpdateTree(tree, c).on_update
       /\ tg' = c.tg
       /\ err' = c.err
       /\ main_id' = IF c.err THEN main_id ELSE c.main_id
  /\ opts' = options
  /\ single_parent_empty_card' = spec
  /\ steps' = steps + 1
  /\ op' = o
  /\ pre' = data
  /\ mid' = d
  /\ UNCHANGED <<rt, main_id_history, link, undo, api>>

\* createStore with the graph g, the focus m and the first updateTree
LayoutInit ==
  \E g \in LayoutGraphs : \E m \in DataIds(g) : \E one_level_rels \in BOOLEAN :
    /\ opts = [DefaultOptions EXCEPT !.one_level_rels = one_level_rels]
    /\ single_parent_empty_card = TRUE
    /\ \E c \in {CalculateTreeWith(g, m, TRUE, opts, NoToggles, AllIds(g))} :
         data = c.data /\ tree = c.tree /\ tg = c.tg /\ main_id = c.main_id
    /\ main_id_history = <<m>>
    /\ err = FALSE
    /\ op = Op("createStore", m, 0, FALSE)
    /\ steps = 0
    /\ pre = g
    /\ mid = g
    /\ rt = NoRoundTrip
    /\ on_update = <<tree>>
    /\ link = NoLink /\ undo = NoUndo /\ api = NoApi

UpdateTree == LayoutCommit(Op("updateTree", 0, 0, FALSE), data, single_parent_empty_card,
                           opts, tg)

SetAncestryDepth(n) ==
  LayoutCommit(Op("setAncestryDepth", n, 0, FALSE), data, single_parent_empty_card,
               [opts EXCEPT !.ancestry_depth = n], tg)

SetProgenyDepth(n) ==
  LayoutCommit(Op("setProgenyDepth", n, 0, FALSE), data, single_parent_empty_card,
               [opts EXCEPT !.progeny_depth = n], tg)

SetShowSiblingsOfMain(b) ==
  LayoutCommit(Op("setShowSiblingsOfMain", 0, 0, b), data, single_parent_empty_card,
               [opts EXCEPT !.show_siblings_of_main = b], tg)

SetPrivateCardsConfig(p) ==
  LayoutCommit(Op("setPrivateCardsConfig", p, 0, FALSE), data, single_parent_empty_card,
               [opts EXCEPT !.private = p], tg)

SetDuplicateBranchToggle(b) ==
  LayoutCommit(Op("setDuplicateBranchToggle", 0, 0, b), data, single_parent_empty_card,
               [opts EXCEPT !.duplicate_branch_toggle = b], tg)

SetOrientationHorizontal ==
  LayoutCommit(Op("setOrientationHorizontal", 0, 0, FALSE), data, single_parent_empty_card,
               [opts EXCEPT !.is_horizontal = TRUE], tg)

SetOrientationVertical ==
  LayoutCommit(Op("setOrientationVertical", 0, 0, FALSE), data, single_parent_empty_card,
               [opts EXCEPT !.is_horizontal = FALSE], tg)

\* removeToAddFromData
removeToAddFromData(d, avoid) == deleteToAdds(d, 1, Len(d), avoid)

SetSingleParentEmptyCard(b) ==
  LayoutCommit(Op("setSingleParentEmptyCard", 0, 0, b),
               removeToAddFromData(data, AllIds(data) \cup usedIds), b, opts, tg)

\* the key of the toggle value behind the toggle of node k of the tree
toggleKey(t, k, main) ==
  IF t[k].spouse # 0
  THEN <<t[t[k].spouse].id,
         IF t[t[k].spouse].id = main THEN 0 ELSE t[t[t[k].spouse].parent].id,
         t[k].id>>
  ELSE <<t[k].id, IF t[k].id = main THEN 0 ELSE t[t[k].parent].id>>

\* handleCardDuplicateToggle: whether node k of the tree gets a toggle
hasToggle(t, k) ==
  /\ t[k].toggle # 0
  /\ t[k].spouse # 0 => DOMAIN t[t[k].spouse].toggle_id_sp # {}

\* the click on the toggle of node k
clickToggle(t, k, main, toggles, time) ==
  LET flip(val) == IF val < 0 THEN time ELSE -time
  IN  IF t[k].spouse # 0
      THEN [toggles EXCEPT !.sp = setProp(@, toggleKey(t, k, main),
                                          flip(toggles.sp[toggleKey(t, k, main)]))]
      ELSE [toggles EXCEPT !.anc = setProp(@, toggleKey(t, k, main),
                                           flip(toggles.anc[toggleKey(t, k, main)]))]

ToggleClick(k) ==
  /\ hasToggle(tree, k)
  /\ LayoutCommit(Op("toggle", k, 0, FALSE), data, single_parent_empty_card, opts,
                  clickToggle(tree, k, main_id, tg, now))

LayoutNext ==
  \/ UpdateTree
  \/ \E n \in {0, 1} : SetAncestryDepth(n)
  \/ \E n \in {0, 1} : SetProgenyDepth(n)
  \/ \E b \in BOOLEAN : SetShowSiblingsOfMain(b)
  \/ \E p \in PrivateIds : SetPrivateCardsConfig(p)
  \/ \E b \in BOOLEAN : SetDuplicateBranchToggle(b)
  \/ SetOrientationHorizontal
  \/ SetOrientationVertical
  \/ \E b \in BOOLEAN : SetSingleParentEmptyCard(b)
  \/ \E k \in 1..Len(tree) : ToggleClick(k)

LayoutSpec == LayoutInit /\ [][LayoutNext]_vars

(***************************************************************************)
(* Properties of the layout.  mid is the graph the last updateTree was     *)
(* handed, data the graph after it, tree the layout it returned.           *)
(***************************************************************************)
\* the graph is reciprocal and has no dangling ids (its ancestry is acyclic
\* in every graph of LayoutGraphs)
WellFormed(d) == Reciprocal(d) /\ NoDangling(d)

\* C11: on a well-formed graph, for every focus and every combination of the
\* options, CalculateTree returns a layout and raises no error.
C11_LayoutNeverRaises == WellFormed(mid) => ~err

\* the members of the duplicate groups in the layout: on the ancestor side
\* the nodes that ancestry_duplicates[g] holds, on the descendant side the
\* pairs of a node and a spouse id that progeny_duplicates[g] holds
AncestryMembers(g) == {k \in 1..Len(tree) : g \in tree[k].groups}

ProgenyMembers(g) ==
  {m \in (1..Len(tree)) \X DataIds(data) : <<m[2], g>> \in tree[m[1]].groups_sp}

AncestryGroups == UNION {tree[k].groups : k \in 1..Len(tree)}

ProgenyGroups == UNION {{pg[2] : pg \in tree[k].groups_sp} : k \in 1..Len(tree)}

\* the branch of a member is in the layout: the parents of the node, the
\* children the node has with the spouse
ExpandedAncestry(k) == Len(tree[k].parents) > 0

ExpandedProgeny(m) ==
  \E c \in Range(tree[m[1]].children) :
    LET r == person(data, tree[c].id).rels
    IN  (IF r.father = tree[m[1]].id THEN r.mother ELSE r.father) = m[2]

\* C12: after a layout run with duplicate_branch_toggle on, each duplicate
\* group of the ancestor side and of the descendant side has exactly one
\* member whose branch is in the layout.
C12_OneExpandedPerGroup ==
  (opts.duplicate_branch_toggle /\ ~err) =>
    /\ \A g \in AncestryGroups :
         Cardinality({k \in AncestryMembers(g) : ExpandedAncestry(k)}) = 1
    /\ \A g \in ProgenyGroups :
         Cardinality({m \in ProgenyMembers(g) : ExpandedProgeny(m)}) = 1

\* C13: with duplicate_branch_toggle on, all members of one duplicate group
\* carry the same toggle id and members of different groups carry different
\* ids.
C13_ToggleIdPerGroup ==
  (opts.duplicate_branch_toggle /\ ~err) =>
    /\ \A g \in AncestryGroups : \A k \in AncestryMembers(g) : tree[k].toggle_id = g
    /\ \A g \in ProgenyGroups : \A m \in ProgenyMembers(g) :
         tree[m[1]].toggle_id_sp[m[2]] = g

\* the layout nodes of the person of node k, and the place of node k among
\* them in tree order
Occurrences(k) == {j \in 1..Len(tree) : tree[j].id = tree[k].id}

Rank(k) == Cardinality({j \in Occurrences(k) : j <= k})

\* C14: after layout the tids are pairwise distinct; the node of a person
\* that appears once has tid = id and no duplicate value; the nodes of a
\* person that appears k > 1 times have, in tree order, the tids id--x1 ..
\* id--xk, the first one included, and duplicate = k.
C14_TidsNumberEveryOccurrence ==
  /\ \A j, k \in 1..Len(tree) : j # k => tree[j].tid # tree[k].tid
  /\ \A k \in 1..Len(tree) :
       IF Cardinality(Occurrences(k)) = 1
       THEN tree[k].tid = <<tree[k].id, 0>> /\ tree[k].duplicate = 0
       ELSE /\ tree[k].tid = <<tree[k].id, Rank(k)>>
            /\ tree[k].duplicate = Cardinality(Occurrences(k))

\* a person has three nodes in the layout
C14_Witness ==
  \E k \in 1..Len(tree) : Cardinality(Occurrences(k)) = 3 /\ Rank(k) = 3

\* C14 as stated: the first node of every person has tid = id and the N-th
\* further node has tid id--xN, with duplicate = k on every node of a person
\* that appears k > 1 times.
C14_FirstOccurrenceKeepsId ==
  /\ \A j, k \in 1..Len(tree) : j # k => tree[j].tid # tree[k].tid
  /\ \A k \in 1..Len(tree) :
       /\ tree[k].tid = <<tree[k].id, Rank(k) - 1>>
       /\ tree[k].duplicate =
            (IF Cardinality(Occurrences(k)) = 1 THEN 0 ELSE Cardinality(Occurrences(k)))

\* the shift setupSpouses gives a node with n spouses: to the left for a
\* man, to the right otherwise
SpouseShift(d) ==
  (IF person(data, d.id).data.gender = "M" THEN -1 ELSE 1)
    * ((Len(person(data, d.id).rels.spouses) * node_separation) \div 2)

\* C15: in every vertical layout the focus node has depth 0 and y = 0, its x
\* is 0 when the focus has no spouses and n * node_separation / 2 to the
\* left (a man) or to the right (otherwise) when it has n spouses; every
\* ancestor-side node has y < 0 and every other node of depth > 0 has y > 0;
\* the spouses of the focus and its siblings, of depth -1, have y = 0.
C15_FocusRowAndSides ==
  (~opts.is_horizontal /\ ~err) =>
    /\ tree[1].id = main_id /\ tree[1].depth = 0
    /\ tree[1].y = 0 /\ tree[1].x = SpouseShift(tree[1])
    /\ \A k \in 1..Len(tree) :
         /\ tree[k].is_ancestry => tree[k].y < 0
         /\ (~tree[k].is_ancestry /\ tree[k].depth > 0) => tree[k].y > 0
         /\ tree[k].spouse = 1 => tree[k].y = 0
         /\ tree[k].sibling => (tree[k].y = 0 /\ tree[k].depth = -1)

\* a vertical layout of a focus with spouses, ancestors, descendants and
\* siblings
C15_Witness ==
  /\ ~opts.is_horizontal /\ ~err
  /\ Len(person(data, main_id).rels.spouses) > 0
  /\ \E k \in 1..Len(tree) : tree[k].is_ancestry
  /\ \E k \in 1..Len(tree) : ~tree[k].is_ancestry /\ tree[k].depth > 0
  /\ \E k \in 1..Len(tree) : tree[k].sibling

\* C15 as stated: in every vertical layout the focus node has depth 0 and
\* the coordinates (0,0), with or without spouses; every ancestor-side node
\* has y < 0 and every descendant-side node other than the focus, its
\* spouses and its siblings has y > 0.
C15_FocusAtOrigin ==
  (~opts.is_horizontal /\ ~err) =>
    /\ tree[1].id = main_id /\ tree[1].depth = 0
    /\ tree[1].x = 0 /\ tree[1].y = 0
    /\ \A k \in 2..Len(tree) :
         /\ tree[k].is_ancestry => tree[k].y < 0
         /\ (~tree[k].is_ancestry /\ ~tree[k].sibling /\ tree[k].spouse # 1)
              => tree[k].y > 0

\* C16: after layout every descendant-side node c other than the focus, the
\* spouse nodes and the siblings has from = [p1, p2], or [p1] when p1 has no
\* matching spouse node, p1 being the layout parent of c and p2 the spouse
\* node of p1 whose person is the other parent of c; and c is in the to list
\* of every node of c.from.
C16_FromToBackPointers ==
  ~err =>
    \A k \in 1..Len(tree) :
      (~tree[k].is_ancestry /\ ~tree[k].added /\ ~tree[k].sibling /\ tree[k].id # main_id) =>
        LET p1   == tree[k].parent
            r    == person(data, tree[k].id).rels
            cand == {s \in 1..Len(tree) :
                       tree[s].spouse = p1 /\ tree[s].id \in {r.father, r.mother}}
        IN  /\ IF cand = {} THEN tree[k].from = <<p1>>
               ELSE \E p2 \in cand : tree[k].from = <<p1, p2>>
            /\ \A f \in Range(tree[k].from) : includes(tree[f].to, k)

\* the ids in the rels of a person
RelIds(p) ==
  ({p.rels.father, p.rels.mother} \cup Range(p.rels.spouses)
     \cup (IF p.rels.chdef THEN Range(p.rels.children) ELSE {})) \ {0}

\* the person ids of the layout nodes
LayoutIds == {tree[k].id : k \in 1..Len(tree)}

RECURSIVE ParentsAndSpousesOf(_)
ParentsAndSpousesOf(S) ==
  LET more == S \cup UNION {({person(data, id).rels.father, person(data, id).rels.mother}
                               \cup Range(person(data, id).rels.spouses)) \ {0} : id \in S}
  IN  IF more = S THEN S ELSE ParentsAndSpousesOf(more)

\* C18: with private_cards_config set, a layout node of a person that is not
\* a placeholder is marked is_private exactly when the condition holds for
\* the person or for a person reached from it through father, mother and
\* spouses links; the layout nodes of to_add placeholders are never marked.
C18_PrivateExactlyKinOfPrivate ==
  (opts.private # 0 /\ ~err) =>
    \A k \in 1..Len(tree) :
      IF person(data, tree[k].id).to_add THEN ~tree[k].is_private
      ELSE tree[k].is_private <=> opts.private \in ParentsAndSpousesOf({tree[k].id})

\* the layout is vertical and its focus is a man with two spouses
TwoWives ==
  /\ ~err /\ ~opts.is_horizontal
  /\ person(data, main_id).data.gender = "M"
  /\ Len(person(data, main_id).rels.spouses) = 2

\* C19: for a male focus A with rels.spouses = [S1, S2] the layout places
\* A at x = -node_separation and both spouse nodes on the right of A, S1 at
\* x = A.x + node_separation and S2 at x = A.x + 2 * node_separation.
C19_SpousesInARow ==
  TwoWives =>
    /\ tree[1].x = -node_separation
    /\ Len(spouseNodes(tree, 1)) = 2
    /\ \A j \in 1..2 :
         /\ tree[spouseNodes(tree, 1)[j]].id = person(data, main_id).rels.spouses[j]
         /\ tree[spouseNodes(tree, 1)[j]].x = tree[1].x + j * node_separation

\* the focus 1 with the spouses 2 and 3, the child 4 of 3 and the child 5 of 2
C19_Witness ==
  /\ TwoWives /\ main_id = 1
  /\ person(data, 1).rels.spouses = <<2, 3>>
  /\ person(data, 4).rels.mother = 3 /\ person(data, 5).rels.mother = 2
  /\ \E k \in 1..Len(tree) : tree[k].id = 4 /\ tree[k].parent = 1
  /\ \E k \in 1..Len(tree) : tree[k].id = 5 /\ tree[k].parent = 1

\* C19 as stated: the spouse nodes S1 and S2 are on opposite sides of A, one
\* at x = A.x - node_separation and the other at x = A.x + node_separation.
C19_SpousesOnOppositeSides ==
  TwoWives =>
    \E l, r \in Range(spouseNodes(tree, 1)) :
      tree[l].x = tree[1].x - node_separation /\ tree[r].x = tree[1].x + node_separation

(***************************************************************************)
(* The store on its own: createStore on a loaded graph, and the calls of   *)
(* store.updateMainId, deletePerson, store.updateTree and                  *)
(* store.getLastAvailableMainDatum that a caller makes one after another.  *)
(* main_id is -1 while state.main_id is undefined and 0 when it is null.   *)
(***************************************************************************)
\* the number of calls after createStore
MaxStoreCalls == 6

\* no person; one person; a couple 1, 2 with the child 3; a man 1, his son 2
\* and his grandson 3
StoreGraphs ==
  {<<>>, firstNode,
   fromParents(<<"M", "F", "M">>, <<0, 0, 1>>, <<0, 0, 2>>),
   fromParents(<<"M", "M", "M">>, <<0, 1, 2>>, <<0, 0, 0>>)}

\* createStore(initial_state): no layout yet, no focus, an empty history
StoreInit ==
  \E g \in StoreGraphs :
    /\ data = g /\ tree = <<>> /\ main_id = -1 /\ main_id_history = <<>>
    /\ single_parent_empty_card \in BOOLEAN
    /\ err = FALSE
    /\ op = Op("createStore", 0, 0, FALSE)
    /\ steps = 0 /\ pre = g /\ mid = g /\ rt = NoRoundTrip
    /\ opts = DefaultOptions /\ tg = NoToggles /\ on_update = <<>>
    /\ link = NoLink /\ undo = NoUndo /\ api = NoApi

\* what a call leaves alone besides the store's state
StoreCall(o) ==
  /\ steps < MaxStoreCalls
  /\ steps' = steps + 1
  /\ op' = o
  /\ pre' = data
  /\ UNCHANGED <<single_parent_empty_card, rt, opts, tg, link, undo, api>>

\* store.updateMainId(id)
StoreUpdateMainId(id) ==
  /\ StoreCall(Op("updateMainId", id, 0, FALSE))
  /\ \E u \in {updateMainId(main_id, main_id_history, id)} :
       main_id' = u.main_id /\ main_id_history' = u.main_id_history
  /\ err' = FALSE
  /\ on_update' = <<>>
  /\ mid' = data
  /\ UNCHANGED <<data, tree>>

\* deletePerson(datum, store.getData()) for a person of the graph
DeletePerson(id) ==
  /\ StoreCall(Op("deletePerson", id, 0, FALSE))
  /\ inData(data, id)
  /\ data' = deletePerson(data[findIndex(data, id)], data, usedIds)
  /\ mid' = data'
  /\ err' = FALSE
  /\ on_update' = <<>>
  /\ UNCHANGED <<tree, main_id, main_id_history>>

\* deletePerson(datum, store.getData()) once more, with the datum that the
\* call before has removed from the graph
DeletePersonAgain ==
  /\ op.name = "deletePerson" /\ inData(pre, op.id) /\ ~inData(data, op.id)
  /\ StoreCall(Op("deletePerson", op.id, 0, FALSE))
  /\ data' = deletePerson(pre[findIndex(pre, op.id)], data, usedIds \cup {op.id})
  /\ mid' = data'
  /\ err' = FALSE
  /\ on_update' = <<>>
  /\ UNCHANGED <<tree, main_id, main_id_history>>

\* deletePerson(datum, store.getData()) with a person that was never in the
\* graph and has no relatives
DeletePersonNotInGraph ==
  /\ StoreCall(Op("deletePerson", freshId(AllIds(data) \cup usedIds), 0, FALSE))
  /\ data' = deletePerson(createNewPerson(freshId(AllIds(data) \cup usedIds), "M", TRUE,
                                          EmptyRels),
                          data, AllIds(data) \cup usedIds)
  /\ mid' = data'
  /\ err' = FALSE
  /\ on_update' = <<>>
  /\ UNCHANGED <<tree, main_id, main_id_history>>

\* store.updateTree(): calcTree(), then updateMainId(state.tree.main_id) when
\* state.main_id is not set, then the subscriber
StoreUpdateTree ==
  /\ StoreCall(Op("updateTree", 0, 0, FALSE))
  /\ \E c \in {CalculateTree(data, main_id, single_parent_empty_card,
                              AllIds(data) \cup usedIds)} :
       /\ data' = c.data
       /\ err' = c.err
       /\ tree' = storeUpdateTree(tree, c).tree
       /\ on_update' = storeUpdateTree(tree, c).on_update
       /\ \E u \in {IF ~c.err /\ main_id \in {0, -1}
                    THEN updateMainId(main_id, main_id_history, c.main_id)
                    ELSE [main_id |-> main_id, main_id_history |-> main_id_history]} :
            main_id' = u.main_id /\ main_id_history' = u.main_id_history
  /\ mid' = data

\* store.getLastAvailableMainDatum(): state.data[0].id throws on an empty graph
GetLastAvailableMainDatum ==
  /\ StoreCall(Op("getLastAvailableMainDatum", 0, 0, FALSE))
  /\ \E found \in {SelectSeq(main_id_history, LAMBDA id : inData(data, id))} :
       IF Len(found) = 0 /\ Len(data) = 0
       THEN /\ err' = TRUE
            /\ UNCHANGED <<main_id, main_id_history>>
       ELSE /\ err' = FALSE
            /\ \E u \in {updateMainId(main_id, main_id_history,
                                      IF Len(found) = 0 THEN data[1].id
                                      ELSE found[Len(found)])} :
                 main_id' = u.main_id /\ main_id_history' = u.main_id_history
  /\ on_update' = <<>>
  /\ mid' = data
  /\ UNCHANGED <<data, tree>>

StoreNext ==
  \/ \E id \in DataIds(data) \cup {0} : StoreUpdateMainId(id)
  \/ \E id \in DataIds(data) : DeletePerson(id)
  \/ DeletePersonAgain
  \/ DeletePersonNotInGraph
  \/ StoreUpdateTree
  \/ GetLastAvailableMainDatum

StoreSpec == StoreInit /\ [][StoreNext]_vars

(***************************************************************************)
(* Properties of the store.                                                *)
(***************************************************************************)
\* the focus was set to P1, P2 and P3 in turn and P3, the focus, has just
\* been removed from the graph by deletePerson
FocusJustDeleted ==
  /\ op.name = "deletePerson" /\ op.id = main_id
  /\ ~inData(data, main_id)
  /\ Len(main_id_history) = 3 /\ main_id_history[3] = main_id
  /\ inData(data, main_id_history[1]) /\ inData(data, main_id_history[2])

\* C21: after the focus was set to P1, P2 and P3 and P3 was removed by
\* deletePerson, the next updateTree makes P2 the focus of the store and the
\* root of the layout, and leaves main_id_history equal to [P1, P2].
C21_UpdateTreeAdoptsPreviousFocus ==
  [][(FocusJustDeleted /\ op'.name = "updateTree") =>
       /\ ~err'
       /\ main_id' = main_id_history[2]
       /\ tree'[1].id = main_id_history[2]
       /\ main_id_history' = SubSeq(main_id_history, 1, 2)]_vars

\* C22: on a graph without persons updateTree and getLastAvailableMainDatum
\* complete without an error, and after either the graph holds a blank
\* person and main_id is the id of a person of the graph.
C22_EmptyGraphGetsBlankPerson ==
  (Len(pre) = 0 /\ op.name \in {"updateTree", "getLastAvailableMainDatum"}) =>
    /\ ~err
    /\ Len(data) = 1
    /\ main_id \in DataIds(data)

(***************************************************************************)
(* Properties of the onUpdate subscriber.                                  *)
(***************************************************************************)
\* C23: every store.updateTree() invokes the onUpdate subscriber exactly once,
\* and the subscriber reads the layout that call has recomputed and stored in
\* state.tree.
C23_OnUpdateExactlyOnce ==
  [][Len(on_update') = 1 /\ on_update'[1] = tree']_vars

(***************************************************************************)
(* Properties of addChild with a new other parent.                         *)
(***************************************************************************)
\* the last handler added the child op.id to the person op.rel and pushed a
\* new partner after the child (other_parent = "_new")
NewOtherParentAdded ==
  /\ op.name = "addChild" /\ ~op.threw
  /\ inData(mid, op.id) /\ inData(mid, op.rel)
  /\ mid[Len(mid)].id # op.id
  /\ ~inData(pre, mid[Len(mid)].id)

\* what addChild with a new other parent leaves, the to_add flag aside
NewOtherParentWired(T, child, partner) ==
  /\ partner.data.gender = (IF T.data.gender = "M" THEN "F" ELSE "M")
  /\ includes(partner.rels.spouses, T.id) /\ includes(T.rels.spouses, partner.id)
  /\ includes(partner.rels.children, child.id)
  /\ getSlot(child, parentSlot(partner)) = partner.id
  /\ getSlot(child, parentSlot(T)) = T.id
  /\ parentSlot(T) # parentSlot(partner)
  /\ includes(T.rels.children, child.id)

\* C24: adding a child to T with other_parent "_new" creates a partner that
\* is not flagged to_add, has the gender opposite to T, is a mutual spouse
\* of T, lists the child and fills one parent slot of the child, while T
\* fills the other slot and lists the child.
C24_NewOtherParentWired ==
  NewOtherParentAdded =>
    /\ ~mid[Len(mid)].to_add
    /\ NewOtherParentWired(person(mid, op.rel), person(mid, op.id), mid[Len(mid)])

\* a woman of the graph got a child together with a new partner, a man
C24_Witness ==
  /\ NewOtherParentAdded
  /\ person(mid, op.rel).data.gender = "F"
  /\ mid[Len(mid)].data.gender = "M"

\* C24 as stated: the partner created for other_parent "_new" is flagged
\* to_add and is wired to T and to the child as above.
C24_NewOtherParentIsToAdd ==
  NewOtherParentAdded =>
    /\ mid[Len(mid)].to_add
    /\ NewOtherParentWired(person(mid, op.rel), person(mid, op.id), mid[Len(mid)])

(***************************************************************************)
(* getLinkRelOptions: the persons the form offers to link to datum.  The   *)
(* _new_rel_data of the persons is kept in link.new_rel_data, by id.       *)
(***************************************************************************)
\* getAncestry.loopCheck(d): the ids pushed; data_stash.find of an id that is
\* not in the graph gives undefined and the next loopCheck throws, and a
\* cycle of parents ends in a RangeError
RECURSIVE ancestryLoopCheck(_, _, _)
ancestryLoopCheck(d, data_stash, depth) ==
  IF depth > Len(data_stash) THEN [ids |-> {}, err |-> TRUE]
  ELSE LET parents == {d.rels.father, d.rels.mother} \ {0}
           sub(p_id) ==
             IF ~inData(data_stash, p_id) THEN [ids |-> {}, err |-> TRUE]
             ELSE ancestryLoopCheck(data_stash[findIndex(data_stash, p_id)], data_stash,
                                    depth + 1)
       IN  [ids |-> parents \cup UNION {sub(p_id).ids : p_id \in parents},
            err |-> \E p_id \in parents : sub(p_id).err]

getAncestry(datum, data_stash) == ancestryLoopCheck(datum, data_stash, 0)

\* getProgeny.loopCheck(d) over d.rels.children
RECURSIVE progenyLoopCheck(_, _, _)
progenyLoopCheck(d, data_stash, depth) ==
  IF depth > Len(data_stash) THEN [ids |-> {}, err |-> TRUE]
  ELSE LET children == Range(d.rels.children)
           sub(c_id) ==
             IF ~inData(data_stash, c_id) THEN [ids |-> {}, err |-> TRUE]
             ELSE progenyLoopCheck(data_stash[findIndex(data_stash, c_id)], data_stash,
                                   depth + 1)
       IN  [ids |-> children \cup UNION {sub(c_id).ids : c_id \in children},
            err |-> \E c_id \in children : sub(c_id).err]

\* getProgeny that pushes the children and does not descend
getProgeny_childrenOnly(datum, data_stash) ==
  [ids |-> Range(datum.rels.children), err |-> FALSE]

getProgeny(datum, data_stash) == progenyLoopCheck(datum, data_stash, 0)

\* getLinkRelOptions(datum, data) with new_rel_data the _new_rel_data of the
\* persons: the ids of the persons returned, in the order of data
getLinkRelOptions(datum, data_stash, new_rel_data) ==
  LET has_new     == datum.id \in DOMAIN new_rel_data
      rel_index   == IF has_new
                     THEN findIndex(data_stash, new_rel_data[datum.id].rel_id) ELSE 0
      is_child    == has_new /\ new_rel_data[datum.id].rel_type \in {"son", "daughter"}
      ancestry    == getAncestry(datum, data_stash)
      progeny     == getProgeny(datum, data_stash)
      rel_progeny == IF ~is_child THEN [ids |-> {}, err |-> FALSE]
                     ELSE IF rel_index = 0 THEN [ids |-> {}, err |-> TRUE]
                     ELSE getProgeny(data_stash[rel_index], data_stash)
      keep(d) ==
        /\ d.id # datum.id
        /\ (rel_index = 0 \/ d.id # data_stash[rel_index].id)
        /\ d.id \notin DOMAIN new_rel_data /\ ~d.to_add /\ ~d.unknown
        /\ d.id \notin ancestry.ids
        /\ d.id \notin progeny.ids \cup rel_progeny.ids
        /\ ~includes(d.rels.spouses, datum.id)
      kept == SelectSeq(data_stash, keep)
  IN  IF ancestry.err \/ progeny.err \/ rel_progeny.err
      THEN [options |-> <<>>, err |-> TRUE]
      ELSE [options |-> [k \in 1..Len(kept) |-> kept[k].id], err |-> FALSE]

(***************************************************************************)
(* The link options on their own: a graph, at most one person of it        *)
(* converted to unknown, the to_add spouses of createRelsToAdd, at most    *)
(* one person with _new_rel_data that stands where the relative it is      *)
(* created for will stand, and the forms created on it.                    *)
(***************************************************************************)
\* a man 1 with the children 3 (mother 2) and 5 (mother 4); three generations
\* 1, 2 -> 3 and 3, 4 -> 5; a man with one child and no partner
LinkGraphs ==
  {fromParents(<<"M", "F", "M", "F", "F">>, <<0, 0, 1, 0, 1>>, <<0, 0, 2, 0, 4>>),
   fromParents(<<"M", "F", "M", "F", "M">>, <<0, 0, 1, 0, 3>>, <<0, 0, 2, 0, 4>>),
   fromParents(<<"M", "F">>, <<0, 1>>, <<0, 0>>)}

RelTypes == {"father", "mother", "son", "daughter", "spouse"}

\* the graph with the person for the relation rel_type of data_stash[r]
withNewRel(data_stash, rel_type, r, other_parent) ==
  addNewPersonAndHandleRels(
    data_stash,
    createNewPerson(freshId(AllIds(data_stash)),
                    IF rel_type \in {"son", "father"} THEN "M"
                    ELSE IF rel_type \in {"daughter", "mother"} THEN "F"
                    ELSE getGenderFromRelative(data_stash[r], rel_type),
                    FALSE, EmptyRels),
    rel_type, data_stash[r].id, other_parent, AllIds(data_stash))

LinkInit ==
  \E g \in LinkGraphs : \E u \in 0..Len(g) : \E augment \in BOOLEAN :
  \E d1 \in {IF u = 0 THEN g ELSE changeToUnknown(g[u], g)} :
  \E d2 \in {IF augment THEN createRelsToAdd(d1, AllIds(d1)).data ELSE d1} :
    /\ \/ data = d2 /\ link = NoLink
       \/ \E r \in 1..Len(d2) : \E rel_type \in RelTypes :
          \E other_parent \in {0} \cup Range(d2[r].rels.spouses) :
          \E w \in {withNewRel(d2, rel_type, r, other_parent)} :
            /\ ~d2[r].to_add /\ ~d2[r].unknown
            /\ other_parent # 0 => rel_type \in {"son", "daughter"}
            /\ rel_type = "father" => d2[r].rels.father = 0
            /\ rel_type = "mother" => d2[r].rels.mother = 0
            /\ ~w.err
            /\ data = w.data
            /\ link = [NoLink EXCEPT !.new_rel_data =
                         (freshId(AllIds(d2)) :> [rel_type |-> rel_type,
                                                  rel_id |-> d2[r].id])]
    /\ tree = <<>> /\ main_id = 0 /\ main_id_history = <<>>
    /\ single_parent_empty_card = augment /\ err = FALSE
    /\ op = Op("createStore", 0, 0, FALSE)
    /\ steps = 0 /\ pre = data /\ mid = data /\ rt = NoRoundTrip
    /\ opts = DefaultOptions /\ tg = NoToggles /\ on_update = <<>>
    /\ undo = NoUndo /\ api = NoApi

\* createLinkExistingRelative(datum, store.getData(), ...) of the form made
\* for data[t], which carries _new_rel_data or is to_add or unknown
CreateLinkExistingRelative(t) ==
  /\ data[t].id \in DOMAIN link.new_rel_data \/ data[t].to_add \/ data[t].unknown
  /\ \E o \in {getLinkRelOptions(data[t], data, link.new_rel_data)} :
       link' = [link EXCEPT !.datum_id = data[t].id, !.options = o.options,
                            !.err = o.err]
  /\ op' = Op("createLinkExistingRelative", data[t].id, 0, FALSE)
  /\ err' = link'.err
  /\ UNCHANGED <<data, tree, main_id, single_parent_empty_card, steps, pre, mid, rt,
                 main_id_history, opts, tg, on_update, undo, api>>

LinkNext == \E t \in 1..Len(data) : CreateLinkExistingRelative(t)

LinkSpec == LinkInit /\ [][LinkNext]_vars

(***************************************************************************)
(* Properties of the link options.                                         *)
(***************************************************************************)
\* the persons that have id in their father or mother slot, and so on upwards
RECURSIVE AncestorsOf(_, _)
AncestorsOf(S, d) ==
  LET up == S \cup UNION {{d[i].rels.father, d[i].rels.mother} \ {0}
                            : i \in {j \in 1..Len(d) : d[j].id \in S}}
  IN  IF up = S THEN S ELSE AncestorsOf(up, d)

\* the persons that have a person of S among their ancestors, S included
RECURSIVE DescendantsOf(_, _)
DescendantsOf(S, d) ==
  LET down == S \cup {d[i].id : i \in {j \in 1..Len(d) :
                                          {d[j].rels.father, d[j].rels.mother} \cap S # {}}}
  IN  IF down = S THEN S ELSE DescendantsOf(down, d)

\* the person the relation in flight of the target is created for (0: none)
SubjectOf(target) ==
  IF target.id \in DOMAIN link.new_rel_data THEN link.new_rel_data[target.id].rel_id ELSE 0

ChildRelation(target) ==
  /\ target.id \in DOMAIN link.new_rel_data
  /\ link.new_rel_data[target.id].rel_type \in {"son", "daughter"}

LinkCandidates(target) ==
  {data[i].id : i \in {j \in 1..Len(data) :
     /\ ~data[j].to_add /\ ~data[j].unknown /\ data[j].id \notin DOMAIN link.new_rel_data
     /\ data[j].id # target.id
     /\ data[j].id # SubjectOf(target)
     /\ data[j].id \notin Range(target.rels.spouses)
     /\ data[j].id \notin AncestorsOf({target.id}, data)
     /\ data[j].id \notin DescendantsOf({target.id}, data)
     /\ ChildRelation(target) => data[j].id \notin DescendantsOf({SubjectOf(target)}, data)}}

\* C25: getLinkRelOptions(target, graph) returns exactly the persons of the
\* graph that are real (not to_add, not unknown, without _new_rel_data), are
\* not the target, not the subject of the relation in flight, not a spouse of
\* the target, and neither an ancestor nor a descendant of the target; for a
\* child relation also not a descendant of the person the target is paired
\* with in that relation, the subject.
C25_LinkOptionsExact ==
  link.datum_id # 0 =>
    /\ ~link.err
    /\ Range(link.options) = LinkCandidates(person(data, link.datum_id))
    /\ Cardinality(Range(link.options)) = Len(link.options)

\* the form of a son in flight was offered some persons and was refused a
\* real person that is neither its subject nor an ancestor of the target
C25_Witness ==
  /\ link.datum_id # 0 /\ ~link.err
  /\ ChildRelation(person(data, link.datum_id))
  /\ Len(link.options) > 0
  /\ \E i \in 1..Len(data) :
       /\ ~data[i].to_add /\ ~data[i].unknown
       /\ data[i].id \notin Range(link.options) \cup {link.datum_id}
       /\ data[i].id \notin AncestorsOf({link.datum_id}, data)

(***************************************************************************)
(* Properties of cardChangeMain.                                           *)
(***************************************************************************)
\* a father, a mother or a child of p is kept in p._rels
HasHiddenRels(p) ==
  p._rels.father # 0 \/ p._rels.mother # 0 \/ Len(p._rels.children) > 0

\* C28: after cardChangeMain completes no person of the graph has hidden
\* relations: every father, mother and children entry that an earlier hide
\* moved into _rels, on any person and under any earlier layout, is back in
\* rels.
C28_ChangeMainShowsEveryRel ==
  (op.name = "changeMain" /\ ~op.threw /\ ~err) =>
    \A i \in 1..Len(data) : ~HasHiddenRels(data[i])

(***************************************************************************)
(* Properties of deletePerson on a person that is not in the graph.        *)
(***************************************************************************)
\* C27: deletePerson called with a person that was already removed from the
\* graph, or was never in it, leaves the set of persons and the rels of
\* every person unchanged.
C27_DeleteAbsentChangesNothing ==
  (op.name = "deletePerson" /\ ~inData(pre, op.id)) =>
    /\ DataIds(data) = DataIds(pre)
    /\ relsOf(data) = relsOf(pre)

(***************************************************************************)
(* createHistory(store, getStoreDataCopy, onUpdate): the snapshots of the  *)
(* graph, taken by changed() and restored by back() and forward().         *)
(* undo.dropped is the number of snapshots the last changed() discarded.   *)
(***************************************************************************)
canForward(u) == u.history_index < Len(u.history) - 1

canBack(u) == u.history_index > 0

\* changed() that pushes without cutting the history at history_index
changed_keepLater(u, clean_data, m) ==
  [history |-> Append(u.history, [data |-> clean_data, main_id |-> m]),
   history_index |-> u.history_index + 1,
   dropped |-> 0]

\* changed(): clean_data = getStoreDataCopy(); clean_data.main_id = m
changed(u, clean_data, m) ==
  LET kept == IF u.history_index < Len(u.history) - 1
              THEN SubSeq(u.history, 1, u.history_index + 1) ELSE u.history
  IN  [history |-> Append(kept, [data |-> clean_data, main_id |-> m]),
       history_index |-> u.history_index + 1,
       dropped |-> Len(u.history) - Len(kept)]

\* JSON.parse(JSON.stringify(data)) of a snapshot: stringify writes the
\* elements of an array and none of its other properties, so the copy has no
\* main_id (-1: undefined)
jsonCopy(snapshot) == [data |-> snapshot.data, main_id |-> -1]

\* updateData(data) of createHistory up to store.updateData(data)
updateData(snapshot, m, h) ==
  LET copy == jsonCopy(snapshot)
      u    == IF ~inData(copy.data, m) THEN updateMainId(m, h, copy.main_id)
              ELSE [main_id |-> m, main_id_history |-> h]
  IN  [data |-> copy.data, main_id |-> u.main_id, main_id_history |-> u.main_id_history]

\* what a call on the history leaves alone besides the store and the history
HistoryCall(o) ==
  /\ steps < MaxStoreCalls
  /\ steps' = steps + 1
  /\ op' = o
  /\ pre' = data
  /\ UNCHANGED <<single_parent_empty_card, rt, opts, tg, link, api>>

\* history.changed()
Changed ==
  /\ HistoryCall(Op("changed", 0, 0, FALSE))
  /\ undo' = changed(undo, data, main_id)
  /\ err' = FALSE
  /\ on_update' = <<>>
  /\ mid' = data
  /\ UNCHANGED <<data, tree, main_id, main_id_history>>

\* updateData(history[i]) and onUpdate(), the callback handed to
\* createHistory: it runs store.updateTree() (run) or leaves the store alone
Restore(i, run) ==
  \E r \in {updateData(undo.history[i + 1], main_id, main_id_history)} :
  \E c \in {CalculateTree(r.data, r.main_id, single_parent_empty_card,
                          AllIds(r.data) \cup usedIds)} :
  \E u \in {IF run /\ ~c.err /\ r.main_id \in {0, -1}
            THEN updateMainId(r.main_id, r.main_id_history, c.main_id)
            ELSE [main_id |-> r.main_id, main_id_history |-> r.main_id_history]} :
    /\ undo' = [undo EXCEPT !.history_index = i]
    /\ mid' = r.data
    /\ data' = IF run THEN c.data ELSE r.data
    /\ err' = (run /\ c.err)
    /\ tree' = IF run THEN storeUpdateTree(tree, c).tree ELSE tree
    /\ on_update' = IF run THEN storeUpdateTree(tree, c).on_update ELSE <<>>
    /\ main_id' = u.main_id /\ main_id_history' = u.main_id_history

\* history.back()
Back(run) ==
  /\ HistoryCall(Op("back", 0, 0, FALSE))
  /\ IF ~canBack(undo)
     THEN /\ err' = FALSE /\ on_update' = <<>> /\ mid' = data
          /\ UNCHANGED <<undo, data, tree, main_id, main_id_history>>
     ELSE Restore(undo.history_index - 1, run)

\* history.forward()
Forward(run) ==
  /\ HistoryCall(Op("forward", 0, 0, FALSE))
  /\ IF ~canForward(undo)
     THEN /\ err' = FALSE /\ on_update' = <<>> /\ mid' = data
          /\ UNCHANGED <<undo, data, tree, main_id, main_id_history>>
     ELSE Restore(undo.history_index + 1, run)

\* a store created on the couple 1, 2 with the child 3 or on the line 1, 2, 3
\* with a focus, and the history created on it
UndoInit ==
  \E g \in StoreGraphs : \E m \in DataIds(g) :
    /\ Len(g) = 3
    /\ data = g /\ tree = <<>> /\ main_id = m /\ main_id_history = <<>>
    /\ single_parent_empty_card = FALSE
    /\ err = FALSE
    /\ op = Op("createHistory", 0, 0, FALSE)
    /\ steps = 0 /\ pre = g /\ mid = g /\ rt = NoRoundTrip
    /\ opts = DefaultOptions /\ tg = NoToggles /\ on_update = <<>>
    /\ link = NoLink /\ undo = NoUndo /\ api = NoApi

UndoNext ==
  \/ \E id \in DataIds(data) : StoreUpdateMainId(id)
  \/ \E id \in DataIds(data) : DeletePerson(id)
  \/ Changed
  \/ \E run \in BOOLEAN : Back(run)
  \/ \E run \in BOOLEAN : Forward(run)

UndoSpec == UndoInit /\ [][UndoNext]_vars

(***************************************************************************)
(* Properties of the undo history.                                         *)
(***************************************************************************)
\* C29: in any interleaving of changed(), back() and forward(): once
\* changed() was called, 0 <= history_index <= history.length - 1; back()
\* at index 0 and forward() at the last index change nothing; changed()
\* keeps the snapshots up to the current index only and adds one, so that
\* canForward() is false right after it.
C29_UndoIndexAndTruncation ==
  [][/\ Len(undo'.history) > 0 =>
          undo'.history_index \in 0..(Len(undo'.history) - 1)
     /\ (op'.name = "back" /\ undo.history_index = 0) =>
          UNCHANGED <<undo, data, tree, main_id, main_id_history>>
     /\ (op'.name = "forward" /\ undo.history_index = Len(undo.history) - 1) =>
          UNCHANGED <<undo, data, tree, main_id, main_id_history>>
     /\ op'.name = "changed" =>
          /\ SubSeq(undo'.history, 1, Len(undo'.history) - 1)
               = SubSeq(undo.history, 1, undo.history_index + 1)
          /\ undo'.history[Len(undo'.history)].data = data
          /\ ~canForward(undo')]_vars

\* a changed() after back() has discarded a snapshot
C29_Witness ==
  /\ op.name = "changed"
  /\ undo.dropped > 0
  /\ undo.history_index = Len(undo.history) - 1

\* C30: when back() or forward() restores a snapshot that does not hold the
\* current focus, the focus of the store becomes the main_id that changed()
\* recorded with that snapshot, and it names a person of the restored graph
\* (stated for the snapshots whose recorded main_id is one of their persons).
C30_RestoreAdoptsRecordedFocus ==
  [][(/\ op'.name \in {"back", "forward"}
      /\ undo'.history_index # undo.history_index
      /\ ~inData(undo.history[undo'.history_index + 1].data, main_id)
      /\ inData(undo.history[undo'.history_index + 1].data,
                undo.history[undo'.history_index + 1].main_id)) =>
       /\ main_id' = undo.history[undo'.history_index + 1].main_id
       /\ inData(data', main_id')]_vars

(***************************************************************************)
(* The form of createForm and the API at /api/family.  submitFormChanges   *)
(* and deletePersonWithPostSubmit change the local graph, send their       *)
(* request and go on when the answer has arrived; other handlers run while *)
(* they wait.  api.server holds the documents of the server, api.requests  *)
(* the requests in flight: "sent" until the server has handled them, then  *)
(* "ok" or "failed".  The server stores the body of a save it accepts and  *)
(* answers with it, removes the person of a delete it accepts, and keeps   *)
(* its documents when it refuses (res.ok is false and the call throws).    *)
(* The form has no rel_reference field; the deletePerson callback is       *)
(* deletePerson(datum, store.getData()) and postSubmit changes no data.    *)
(***************************************************************************)
\* the number of requests that wait for their answer at a time
MaxInFlight == 2

\* form_data.forEach((v, k) => datum.data[k] = v), delete datum.to_add,
\* delete datum.unknown
submitFormChanges(datum, v) ==
  [datum EXCEPT !.data.attrs = v, !.to_add = FALSE, !.unknown = FALSE]

\* Object.assign(datum, saved): saved has the keys of the request body, and
\* the body was made after to_add and unknown were deleted
assign(datum, saved) ==
  [saved EXCEPT !.to_add = datum.to_add, !.unknown = datum.unknown]

\* the server after PUT /api/family/{honoreeId}/person with this body: the
\* document is stored under its id
afterPut(server, body) ==
  IF inData(server, body.id)
  THEN [array(server) EXCEPT ![findIndex(server, body.id)] = body]
  ELSE Append(server, body)

\* the server after DELETE /api/family/{honoreeId}/person with this id
afterDelete(server, id) == SelectSeq(server, LAMBDA d : d.id # id)

\* what a step of the form or of the server leaves alone
ApiStep(o) ==
  /\ steps < MaxStoreCalls
  /\ steps' = steps + 1
  /\ op' = o
  /\ pre' = data
  /\ UNCHANGED <<single_parent_empty_card, rt, opts, tg, link, undo>>

\* submitFormChanges up to its await: the form's value is written into the
\* datum, the flags are cleared and the request is sent
SubmitFormChanges(id, v) ==
  /\ ApiStep(Op("submit", id, 0, FALSE))
  /\ Len(api.requests) < MaxInFlight
  /\ inData(data, id)
  /\ data' = [array(data) EXCEPT ![findIndex(data, id)] = submitFormChanges(@, v)]
  /\ api' = [api EXCEPT !.requests =
               Append(@, [kind |-> "save", id |-> id, status |-> "sent",
                          body |-> submitFormChanges(person(data, id), v)])]
  /\ mid' = data'
  /\ err' = FALSE
  /\ on_update' = <<>>
  /\ UNCHANGED <<tree, main_id, main_id_history>>

\* deletePersonWithPostSubmit up to its await: deletePerson() and the request
DeletePersonWithPostSubmit(id) ==
  /\ ApiStep(Op("delete", id, 0, FALSE))
  /\ Len(api.requests) < MaxInFlight
  /\ inData(data, id)
  /\ data' = deletePerson(person(data, id), data, usedIds)
  /\ api' = [api EXCEPT !.requests =
               Append(@, [kind |-> "delete", id |-> id, status |-> "sent",
                          body |-> person(data, id)])]
  /\ mid' = data'
  /\ err' = FALSE
  /\ on_update' = <<>>
  /\ UNCHANGED <<tree, main_id, main_id_history>>

\* savePersonToDB and deletePersonFromDB: the server handles the request k
\* and answers with res.ok, or without
Server(k, ok) ==
  /\ api.requests[k].status = "sent"
  /\ ApiStep(Op("server", api.requests[k].id, 0, FALSE))
  /\ api' = [server |->
               IF ~ok THEN api.server
               ELSE IF api.requests[k].kind = "save"
               THEN afterPut(api.server, api.requests[k].body)
               ELSE afterDelete(api.server, api.requests[k].id),
             requests |->
               [array(api.requests) EXCEPT ![k].status = IF ok THEN "ok" ELSE "failed"]]
  /\ mid' = data
  /\ err' = FALSE
  /\ on_update' = <<>>
  /\ UNCHANGED <<data, tree, main_id, main_id_history>>

\* store.updateTree({}) on the graph d after an answer that is ok; after a
\* failed one the catch block logs and the store is left alone
AfterAwait(ok, d) ==
  IF ~ok
  THEN /\ data' = d
       /\ err' = FALSE
       /\ on_update' = <<>>
       /\ UNCHANGED <<tree, main_id, main_id_history>>
  ELSE \E c \in {CalculateTree(d, main_id, single_parent_empty_card,
                               AllIds(d) \cup usedIds)} :
         /\ data' = c.data
         /\ err' = c.err
         /\ tree' = storeUpdateTree(tree, c).tree
         /\ on_update' = storeUpdateTree(tree, c).on_update
         /\ \E u \in {IF ~c.err /\ main_id \in {0, -1}
                      THEN updateMainId(main_id, main_id_history, c.main_id)
                      ELSE [main_id |-> main_id, main_id_history |-> main_id_history]} :
              main_id' = u.main_id /\ main_id_history' = u.main_id_history

\* submitFormChanges after its await, with the answer to the request k;
\* op.threw tells that savePersonToDB threw
SubmitFormChangesResumes(k) ==
  /\ api.requests[k].kind = "save" /\ api.requests[k].status # "sent"
  /\ ApiStep([Op("submitFormChanges", api.requests[k].id, 0, FALSE)
                EXCEPT !.threw = (api.requests[k].status = "failed")])
  /\ api' = [api EXCEPT !.requests = removeAt(@, k)]
  /\ mid' = data
  /\ AfterAwait(api.requests[k].status = "ok",
                IF api.requests[k].status = "ok" /\ inData(data, api.requests[k].id)
                THEN [array(data) EXCEPT ![findIndex(data, api.requests[k].id)] =
                        assign(@, api.requests[k].body)]
                ELSE data)

\* deletePersonWithPostSubmit after its await, with the answer to the
\* request k; op.threw tells that deletePersonFromDB threw
DeletePersonWithPostSubmitResumes(k) ==
  /\ api.requests[k].kind = "delete" /\ api.requests[k].status # "sent"
  /\ ApiStep([Op("deletePersonWithPostSubmit", api.requests[k].id, 0, FALSE)
                EXCEPT !.threw = (api.requests[k].status = "failed")])
  /\ api' = [api EXCEPT !.requests = removeAt(@, k)]
  /\ mid' = data
  /\ AfterAwait(api.requests[k].status = "ok", data)

\* a store created on a graph loaded from the server, with a focus
SyncInit ==
  \E g \in StoreGraphs : \E m \in DataIds(g) :
    /\ data = g /\ tree = <<>> /\ main_id = m /\ main_id_history = <<>>
    /\ single_parent_empty_card = FALSE
    /\ err = FALSE
    /\ op = Op("createStore", 0, 0, FALSE)
    /\ steps = 0 /\ pre = g /\ mid = g /\ rt = NoRoundTrip
    /\ opts = DefaultOptions /\ tg = NoToggles /\ on_update = <<>>
    /\ link = NoLink /\ undo = NoUndo
    /\ api = [server |-> g, requests |-> <<>>]

SyncNext ==
  \/ \E id \in DataIds(data) : \E v \in BOOLEAN : SubmitFormChanges(id, v)
  \/ \E id \in DataIds(data) : DeletePersonWithPostSubmit(id)
  \/ \E k \in 1..Len(api.requests) : \E ok \in BOOLEAN : Server(k, ok)
  \/ \E k \in 1..Len(api.requests) : SubmitFormChangesResumes(k)
  \/ \E k \in 1..Len(api.requests) : DeletePersonWithPostSubmitResumes(k)

SyncSpec == SyncInit /\ [][SyncNext]_vars

(***************************************************************************)
(* Properties of the form and the server.                                  *)
(***************************************************************************)
\* what the graph d holds of the person id: its fields and its to_add and
\* unknown flags, or nothing
HeldOf(d, id) ==
  IF inData(d, id)
  THEN <<person(d, id).data, person(d, id).to_add, person(d, id).unknown>>
  ELSE <<>>

\* C26: when a submit or a delete issued through createForm has completed,
\* whether its API call succeeded or failed and whatever other edits ran
\* while it was awaited, the local graph holds of that person what the
\* server holds: no edited field, cleared to_add or unknown flag or removed
\* person is local only (stated for the moments when no other request for
\* that person is still in flight).
C26_LocalEqualsServer ==
  (/\ op.name \in {"submitFormChanges", "deletePersonWithPostSubmit"}
   /\ \A k \in 1..Len(api.requests) : api.requests[k].id # op.id)
    => HeldOf(data, op.id) = HeldOf(api.server, op.id)
====
